---- MODULE Spec2Model ----
(***************************************************************************)
(* Model of the auto-update scheduling of web_scales_api:                  *)
(*   app/services/scheduler_service.py  (scheduler_start, scheduler_shutdown,*)
(*                                       scheduler_rebuild_jobs_from_db)   *)
(*   app/api/v1/devices.py, app/api/v1/auto_update.py (the request handlers *)
(*                                       that commit and then rebuild)     *)
(*   app/scheduler.py, app/main.py      (the older entry point             *)
(*                                       rebuild_jobs_from_db)             *)
(* The job table, the timer and the executor are those of the             *)
(* BackgroundScheduler the code configures: jobs are keyed by id,          *)
(* get_job / remove_job / add_job are each atomic, an interval job added   *)
(* at time t first fires at t + minutes, and the executor counts the       *)
(* running instances per job id.                                           *)
(***************************************************************************)
EXTENDS Integers, Sequences, FiniteSets, TLC

\* ---- bounds of the model ----
MaxTime == 3
ReconfTime == 2
MaxInterval == 2
MaxItems == 2
MaxPlu == 2
MaxGroup == 3
MaxTotal == 8
MaxChunk == 4
MaxDepth == 5
MaxShelf == 2
MaxDay == 2

Devices == {1, 2}
Threads == {"w1", "w2"}
Intervals == 1..MaxInterval

\* ---- settings and arguments of the program ----

\* settings.scheduler_interval, the interval of a schedule row the program
\* creates itself; any positive number of minutes, here the largest of the model
scheduler_interval == MaxInterval

\* add_job(..., max_instances = 1, coalesce = True)
max_instances_two == 1 + 1
max_instances == 1

coalesce_off == FALSE
coalesce == TRUE

\* find_products_breaking_upload(..., initial_chunk_size = 50, max_chunk_size = 500)
initial_chunk_size == 50
max_chunk_size == 500

VARIABLES
    scheduler_enabled,          \* settings.scheduler_enabled
    scheduler_service_enabled,  \* settings.scheduler_service_enabled
    devices,                    \* ids of the rows of table devices
    schedules,                  \* table auto_update_schedules: device_id -> row
    running,                    \* scheduler.running (services/scheduler_service.py)
    jobs,                       \* job table of that scheduler
    instances,                  \* executor: running instances per job id
    queued,                     \* run times a running instance still has to call
    now,                        \* the clock, in minutes
    pc,                         \* per request thread: position in its handler
    req,                        \* per request thread: the request it serves
    snapshot,                   \* per request thread: db.query(AutoUpdateSchedule).all()
    todo,                       \* per request thread: rows of the loop not yet visited
    legacy_running,             \* scheduler.running (app/scheduler.py)
    legacy_jobs,                \* job table of the scheduler of app/scheduler.py
    scope,                      \* what a specification explores: threads, devices, the
                                \* devices whose cache and runs it follows, the calls of
                                \* find_products_breaking_upload it makes, horizon
    hist,                       \* history variables, read only by the properties
    products_fix_mode,          \* settings.products_fix_mode
    products_cache,             \* devices.products_cache_json, devices.cached_dirty
    sch_last,                   \* auto_update_schedules.last_run_utc, last_status, last_error
    run,                        \* per device: the call of auto_update_job or upload_cache in progress
    obs,                        \* per device: history of that call, read only by the properties
    iso,                        \* the call of find_products_breaking_upload in progress
    upd                         \* the call of update_dates_only in progress

vars == <<scheduler_enabled, scheduler_service_enabled, devices, schedules,
          running, jobs, instances, queued, now, pc, req, snapshot, todo,
          legacy_running, legacy_jobs, scope, hist,
          products_fix_mode, products_cache, sch_last, run, obs, iso, upd>>

settingsVars == <<scheduler_enabled, scheduler_service_enabled, scope>>
storeVars == <<devices, schedules>>
execVars == <<instances, queued>>
threadVars == <<pc, req, snapshot, todo>>
legacyVars == <<legacy_running, legacy_jobs>>
catalogVars == <<products_cache, sch_last>>
runVars == <<products_fix_mode, run, obs, iso, upd>>

\* ---- the job table (scheduler.get_job / remove_job / add_job) ----

Job(d, m, t) == [id |-> d, minutes |-> m, next_run_time |-> t]

\* scheduler.get_job(job_id): the jobs stored under the id auto_update:<d>
get_job(table, d) == {j \in table : j.id = d}

\* an add_job that takes settings.scheduler_interval for every job
add_job_default_interval(table, d, m, t) ==
    {j \in table : j.id # d} \cup {Job(d, scheduler_interval, t + scheduler_interval)}

\* scheduler.add_job(..., "interval", minutes = m, id = job_id,
\* replace_existing = True): an interval trigger created at time t has
\* start_date t + m, which is the job's first run time; a job already stored
\* under the id is replaced.
add_job(table, d, m, t) == {j \in table : j.id # d} \cup {Job(d, m, t + m)}

\* the number of run times of job j that are due at time t
Due(j, t) == IF j.next_run_time <= t THEN ((t - j.next_run_time) \div j.minutes) + 1 ELSE 0

\* the last run time of job j that is due at time t
LastDue(j, t) == j.next_run_time + (Due(j, t) - 1) * j.minutes

\* the run time of job j after those due at time t
NextRunTime(j, t) == LastDue(j, t) + j.minutes

\* the number of run times that are due at time t for device d
DueOf(d, t) == IF get_job(jobs, d) = {} THEN 0 ELSE Due(CHOOSE j \in get_job(jobs, d) : TRUE, t)

\* coalesce = True: n due run times are rolled into one
Coalesced(n) == IF coalesce /\ n > 0 THEN 1 ELSE n

\* the live job set as the specification speaks of it: device ids and intervals
JobSet(table) == {<<j.id, j.minutes>> : j \in table}

\* ---- errors and the recorded last_error ----

NoErr == [kind |-> "none", msg |-> "none"]

\* raise DeviceError(msg)
DeviceError(msg) == [kind |-> "DeviceError", msg |-> msg]

\* any exception that is not a DeviceError
OtherError(msg) == [kind |-> "Exception", msg |-> msg]

Marker == "Unexpected: "

\* f"... index={idx}, pluNumber={plu}, name={name}" for the item at place idx
\* of the catalog; an item without a pluNumber is printed as None
ProductMessage(idx, plu) ==
    "index=" \o ToString(idx) \o ", pluNumber=" \o (IF plu = 0 THEN "None" ELSE ToString(plu))

\* a recorded last_error that says nothing about the class of the error
last_error_unmarked(e) == <<e.msg>>

\* sch.last_error = str(e) in `except DeviceError`,
\* sch.last_error = f"Unexpected: {e}" in `except Exception`
last_error(e) == IF e.kind = "DeviceError" THEN <<e.msg>> ELSE <<Marker, e.msg>>

StartsWithMarker(text) == Len(text) > 0 /\ text[1] = Marker

\* ---- the schedule store ----

Row(e, m) == [enabled |-> e, interval_minutes |-> m]

\* db.add(sch); db.commit() for the row of device d
Upsert(table, d, row) == [x \in (DOMAIN table) \cup {d} |-> IF x = d THEN row ELSE table[x]]

\* db.delete(dev); db.commit(): the schedule row goes with the device
DeleteRow(table, d) == [x \in (DOMAIN table) \ {d} |-> table[x]]

NoRows == [x \in {} |-> Row(FALSE, 0)]

\* ---- catalogs, the catalog cache and the recorded status ----

\* a catalog {"products": [...]}: the pluNumber of each item (0: the item has
\* none), and whether the items carry the dates of this run
Catalog(items, dated) == [items |-> items, dated |-> dated]

PLUs == 0..MaxPlu
ItemLists == UNION {[1..n -> PLUs] : n \in 0..MaxItems}

\* what the device may answer to get_products_json()
Catalogs == {Catalog(items, FALSE) : items \in ItemLists}

\* devices.products_cache_json is NULL, devices.cached_dirty is False
NoCache == [present |-> FALSE, catalog |-> Catalog(<<>>, FALSE), dirty |-> FALSE]

\* what a device's cache may hold before a run: nothing, or a catalog that
\* fetch_products saved and patch_product_by_plu made dirty
CachesBefore ==
    {NoCache, [present |-> TRUE, catalog |-> Catalog(<<1>>, FALSE), dirty |-> TRUE]}

\* the row of a new schedule: last_run_utc, last_status, last_error are NULL
NoLast == [last_run_utc |-> 0 - 1, last_status |-> "none", last_error |-> <<>>]
NoReq == [op |-> "none", device_id |-> 0]

Min(S) == CHOOSE x \in S : \A y \in S : x <= y

InRebuild(t) == pc[t] \in {"get_job", "remove_job", "add_job"}

\* ---- a call of auto_update_job(d), or of upload_cache for device d ----

\* no call is in progress for the device
NoRun ==
    [pc       |-> "idle",
     caller   |-> "none",
     sch      |-> FALSE,
     view     |-> NoCache,
     products |-> Catalog(<<>>, FALSE),
     err      |-> NoErr,
     idx      |-> 0,
     scales   |-> 0]

\* the history of the call in progress
NoObs ==
    [steps        |-> <<>>,
     calls        |-> 0,
     cache_writes |-> 0,
     status_writes|-> 0,
     pre          |-> NoCache,
     raised       |-> NoErr,
     bulk_failed  |-> FALSE,
     diagnosis    |-> "none",
     singles      |-> <<>>,
     clients      |-> 0,
     uploads      |-> <<>>,
     device       |-> [known |-> FALSE, catalog |-> Catalog(<<>>, FALSE)]]

\* validate_plu_uniqueness(products): TRUE when it raises; items without a
\* pluNumber are passed over
HasDuplicatePlu(catalog) ==
    \E i, k \in 1..Len(catalog.items) :
       i < k /\ catalog.items[i] # 0 /\ catalog.items[i] = catalog.items[k]

\* update_dates_only(products): every item gets the dates of the run; a
\* catalog without items is left as it is
update_dates_only(catalog) == Catalog(catalog.items, catalog.dated \/ catalog.items # <<>>)

\* ---- find_products_breaking_upload: payloads and upload outcomes ----

\* no call of find_products_breaking_upload is in progress
NoCall == [pc |-> "off"]

Range(seq) == {seq[i] : i \in 1..Len(seq)}

Smaller(a, b) == IF a < b THEN a ELSE b

Larger(a, b) == IF a > b THEN a ELSE b

\* full_payload: the fields of the template and n products, told apart by
\* their place in the list
Payload(n) == [template |-> "fields", products |-> [i \in 1..n |-> i]]

\* the arguments of a call and the outcome of every upload: a payload fails
\* when its set of products is in `failing` or holds a group of `defects`
Call(n, failing, defects, ics, mcs) ==
    [full_payload |-> Payload(n), failing |-> failing, defects |-> defects,
     initial_chunk_size |-> ics, max_chunk_size |-> mcs]

\* every outcome function over the subsets of n products
TableCalls(n) ==
    {Call(n, f, {}, ics, mcs) :
        f \in SUBSET (SUBSET (1..n) \ {{}}), ics \in 1..MaxGroup, mcs \in 1..MaxGroup}

\* no defect, one product that fails alone, or two that fail together
Defects(n) ==
    {{}} \cup {{{k}} : k \in 1..n} \cup {{{a, b}} : a \in 1..n, b \in 1..n}

\* up to MaxTotal products with at most one defect, and the catalog of
\* twenty chunks of the default size without a defect, scanned with the defaults
DefectCalls ==
    UNION {{Call(n, {}, g, ics, mcs) :
               g \in Defects(n), ics \in 1..MaxChunk, mcs \in 1..MaxChunk} :
           n \in 0..MaxTotal}
       \cup {Call(20 * initial_chunk_size, {}, {}, initial_chunk_size, max_chunk_size)}

\* the calls that are made: on up to MaxGroup products with every outcome
\* function, or on the catalogs of DefectCalls
Calls(isolate) ==
    IF isolate = "tables" THEN UNION {TableCalls(n) : n \in 0..MaxGroup}
    ELSE IF isolate = "defects" THEN DefectCalls
    ELSE {}

\* ---- update_dates_only on the fields of the items ----

\* no call of update_dates_only is in progress
NoUpdate == [pc |-> "off"]

\* strftime("%d-%m-%y") of the day n days after the first day of the model;
\* the days of the model lie within one century, where the text tells the day
Fmt(n) == "day " \o ToString(n)

\* what an item may hold under shelfLifeInDays: nothing, null, or a number
ShelfLives ==
    {[has |-> "missing", days |-> 0], [has |-> "null", days |-> 0]}
       \cup {[has |-> "int", days |-> n] : n \in 0..MaxShelf}

\* an item of a catalog: a dict with a pluNumber, a shelf life, the dates of
\* an earlier day or none, and fields the program does not know; or a value
\* that is not a dict
DictItems ==
    {[dict |-> TRUE, pluNumber |-> plu, shelfLifeInDays |-> life, name |-> "name",
      manufactureDate |-> old, sellByDate |-> old] :
        plu \in {1}, life \in ShelfLives, old \in {"", Fmt(0)}}

ScalarItem ==
    [dict |-> FALSE, pluNumber |-> 0, shelfLifeInDays |-> [has |-> "missing", days |-> 0],
     name |-> "", manufactureDate |-> "", sellByDate |-> ""]

\* the catalogs update_dates_only is called on: up to MaxItems items under
\* "products", or a "products" that is not a list
DatedPayloads ==
    UNION {[template : {"fields"}, listed : {TRUE}, products : [1..n -> DictItems \cup {ScalarItem}]] :
              n \in 0..MaxItems}
       \cup {[template |-> "fields", listed |-> FALSE, products |-> <<>>]}

\* ---- history variables ----

Invalid == {<<0, 0>>}

HistInit ==
    [overlap     |-> [t \in Threads |-> FALSE],
     mutated     |-> [t \in Threads |-> FALSE],
     lastRead    |-> "none",
     changed     |-> [t \in Threads |-> 0],
     base        |-> [t \in Threads |-> Invalid],
     prev        |-> Invalid,
     c5          |-> [d \in Devices |-> "none"],
     reinstalled |-> [d \in Devices |-> FALSE],
     cur         |-> [d \in Devices |-> 0],
     k           |-> [d \in Devices |-> 0],
     finishedAt  |-> [d \in Devices |-> 0 - 1],
     catchUp     |-> [d \in Devices |-> 0],
     noopStart   |-> FALSE,
     flagOffRead |-> FALSE,
     removed     |-> [d \in Devices |-> {}]]

Obs(g) == g \in scope.observe

\* thread t commits a change of the row of device d
HCommit(t, d, old, new) ==
    [hist EXCEPT
       !.mutated = IF ~Obs("rebuild") THEN @ ELSE
                   [u \in Threads |->
                      @[u] \/ (u # t /\ (InRebuild(u) \/ pc[u] = "done") /\ old # new)],
       !.prev    = IF ~Obs("c7") THEN @ ELSE IF old # new THEN Invalid ELSE @,
       !.changed = IF ~Obs("c6") THEN @ ELSE
                   [u \in Threads |->
                      IF u # t THEN (IF old # new THEN 0 ELSE @[u])
                      ELSE IF /\ d \in DOMAIN old /\ d \in DOMAIN new
                              /\ old[d].enabled /\ new[d].enabled
                              /\ old[d].interval_minutes # new[d].interval_minutes
                      THEN old[d].interval_minutes ELSE 0],
       !.c5      = IF ~Obs("c5") THEN @ ELSE
                   [@ EXCEPT ![d] =
                      IF d \notin DOMAIN new THEN (IF @ = "quiet" THEN @ ELSE "none")
                      ELSE IF new[d].enabled THEN "none"
                      ELSE IF d \in DOMAIN old /\ old[d].enabled THEN "flipped"
                      ELSE @]]

\* thread t reads the schedule table
HQuery(t) ==
    [hist EXCEPT
       !.overlap  = IF ~Obs("rebuild") THEN @ ELSE
                    [u \in Threads |->
                       IF u = t THEN \E v \in Threads \ {t} : InRebuild(v)
                       ELSE @[u] \/ InRebuild(u)],
       !.mutated  = [@ EXCEPT ![t] = FALSE],
       !.lastRead = IF ~Obs("rebuild") THEN @ ELSE t,
       !.flagOffRead = @ \/ ~scheduler_enabled,
       !.base     = IF ~Obs("c7") THEN @ ELSE [@ EXCEPT ![t] = hist.prev],
       !.c5       = IF ~Obs("c5") THEN @ ELSE
                    [d \in Devices |-> IF @[d] = "flipped" THEN t ELSE @[d]]]

\* the rebuild of thread t ends: completed, or aborted by an exception
HEnd(h, t, completed, table) ==
    [h EXCEPT
       !.prev = IF ~Obs("c7") THEN @
                ELSE IF completed /\ ~h.overlap[t] /\ ~h.mutated[t]
                THEN JobSet(table) ELSE Invalid,
       !.c5   = IF ~Obs("c5") THEN @ ELSE
                [d \in Devices |->
                   IF @[d] = t
                   THEN (IF completed /\ ~h.overlap[t] THEN "quiet" ELSE "flipped")
                   ELSE @[d]]]

HReturn(t) ==
    [hist EXCEPT
       !.overlap  = [@ EXCEPT ![t] = FALSE],
       !.mutated  = [@ EXCEPT ![t] = FALSE],
       !.changed  = [@ EXCEPT ![t] = 0],
       !.base     = [@ EXCEPT ![t] = Invalid],
       !.lastRead = IF @ = t THEN "none" ELSE @]

\* the end of the last run of a device is forgotten once no run time of its
\* job in `table` lies before it
HForget(h, table) ==
    [h EXCEPT !.finishedAt =
        [d \in Devices |->
           IF \E j \in get_job(table, d) : Due(j, @[d]) > 0 THEN @[d] ELSE 0 - 1]]

\* a rebuild takes job j out of the table
HRemoved(h, j) ==
    IF Obs("removed") THEN [h EXCEPT !.removed = [@ EXCEPT ![j.id] = {j}]] ELSE h

\* the rebuild has gone on from the row of device d
HPassed(h, d) ==
    IF Obs("removed") THEN [h EXCEPT !.removed = [@ EXCEPT ![d] = {}]] ELSE h

\* a rebuild puts the job of device d into the table
HInstall(h, d) ==
    IF Obs("runs")
    THEN [h EXCEPT !.reinstalled = [@ EXCEPT ![d] = @ \/ instances[d] > 0]]
    ELSE h

\* n due run times of device d are refused because a run is active
HSkipped(d, n) ==
    IF ~Obs("runs") THEN hist ELSE [hist EXCEPT !.cur = [@ EXCEPT ![d] = @ + n]]

\* the due run times of job j are submitted and lead to `calls` calls; they
\* are catch-up calls when a run time of j had come before the last run ended
HSubmitted(j, calls) ==
    IF ~Obs("runs") THEN hist ELSE
    [hist EXCEPT
       !.catchUp = [@ EXCEPT ![j.id] =
                      IF Due(j, hist.finishedAt[j.id]) > 0 THEN @ + calls ELSE @],
       !.cur     = [@ EXCEPT ![j.id] = IF calls > 0 THEN 0 ELSE @]]

\* the run of device d ends while n run times of its job are due
HFinished(d, n) ==
    IF ~Obs("runs") THEN hist ELSE
    [hist EXCEPT
       !.k           = [@ EXCEPT ![d] = hist.cur[d] + n],
       !.finishedAt  = [@ EXCEPT ![d] = now],
       !.cur         = [@ EXCEPT ![d] = 0],
       !.catchUp     = [@ EXCEPT ![d] = 0],
       !.reinstalled = [@ EXCEPT ![d] = FALSE]]

\* scheduler_start() is called; `noop` says the call found nothing to do
HStart(noop) ==
    IF ~Obs("lifecycle") THEN hist ELSE [hist EXCEPT !.noopStart = @ \/ noop]

\* ---- initial state: the process has been constructed, the store is empty ----

\* the state once create_device has been served for the devices of `made`, at
\* time 0: each has its schedule row, and its job if scheduler_enabled is on
InitAfter(made) ==
    /\ scheduler_enabled \in BOOLEAN
    /\ scheduler_service_enabled \in BOOLEAN
    /\ devices = made
    /\ schedules = [d \in made |-> Row(scheduler_enabled, scheduler_interval)]
    /\ running = FALSE
    /\ jobs = IF scheduler_enabled
                 THEN {Job(d, scheduler_interval, scheduler_interval) : d \in made}
                 ELSE {}
    /\ instances = [d \in Devices |-> 0]
    /\ queued = [d \in Devices |-> 0]
    /\ now = 0
    /\ pc = [t \in Threads |-> "idle"]
    /\ req = [t \in Threads |-> NoReq]
    /\ snapshot = [t \in Threads |-> NoRows]
    /\ todo = [t \in Threads |-> {}]
    /\ legacy_running = FALSE
    /\ legacy_jobs = {}
    /\ hist = HistInit
    /\ sch_last = [d \in scope.cached |-> NoLast]
    /\ run = [d \in scope.cached |-> NoRun]
    /\ obs = [d \in scope.cached |-> NoObs]
    /\ iso = NoCall
    /\ upd = NoUpdate

\* the process has been constructed, the store is empty
InitState ==
    /\ InitAfter({})
    /\ products_cache = [d \in scope.cached |-> NoCache]

\* settings.products_fix_mode has its default
InitProgram ==
    /\ InitState
    /\ products_fix_mode = FALSE

\* ---- scheduler lifecycle ----

\* a shutdown that gives up the runs in flight
scheduler_shutdown_cancelling ==
    /\ running' = FALSE
    /\ instances' = [d \in Devices |-> 0]
    /\ run' = [d \in DOMAIN run |-> NoRun]
    /\ obs' = [d \in DOMAIN obs |-> NoObs]
    /\ UNCHANGED <<settingsVars, products_fix_mode, iso, upd, catalogVars, storeVars, jobs, queued, now,
                   threadVars, legacyVars, hist>>

\* a scheduler_start() that ignores settings.scheduler_service_enabled
scheduler_start_unguarded ==
    /\ running' = TRUE
    /\ hist' = HStart(running)
    /\ UNCHANGED <<settingsVars, runVars, catalogVars, storeVars, jobs, execVars, now, threadVars, legacyVars>>

scheduler_start ==
    /\ IF ~scheduler_service_enabled
          THEN UNCHANGED running
          ELSE IF ~running THEN running' = TRUE ELSE UNCHANGED running
    /\ hist' = HStart(running \/ ~scheduler_service_enabled)
    /\ UNCHANGED <<settingsVars, runVars, catalogVars, storeVars, jobs, execVars, now, threadVars, legacyVars>>

scheduler_shutdown ==
    /\ IF running THEN running' = FALSE ELSE UNCHANGED running
    /\ UNCHANGED <<settingsVars, runVars, catalogVars, storeVars, jobs, execVars, now, threadVars, legacyVars, hist>>

\* ---- request handlers of api/v1: commit, then rebuild ----

create_device(t, d) ==
    /\ pc[t] = "idle"
    /\ d \notin devices
    /\ products_cache' = [products_cache EXCEPT ![d] = NoCache]
    /\ sch_last' = [sch_last EXCEPT ![d] = NoLast]
    /\ devices' = devices \cup {d}
    /\ schedules' = Upsert(schedules, d, Row(scheduler_enabled, scheduler_interval))
    /\ req' = [req EXCEPT ![t] = [op |-> "create_device", device_id |-> d]]
    /\ pc' = [pc EXCEPT ![t] = "rebuild"]
    /\ hist' = HCommit(t, d, schedules, schedules')
    /\ UNCHANGED <<settingsVars, runVars, running, jobs, execVars, now, snapshot, todo, legacyVars>>

\* what a request body may carry as last_run_utc, last_status and last_error
AuditBodies ==
    {NoLast, [last_run_utc |-> 0, last_status |-> "OK", last_error |-> <<"body">>]}

\* a set_auto_update that stores the audit fields of the request body
set_auto_update_storing_body(t, d, e, m) ==
    /\ pc[t] = "idle"
    /\ d \in devices
    /\ \E body \in AuditBodies :
          sch_last' = [x \in DOMAIN sch_last |-> IF x = d THEN body ELSE sch_last[x]]
    /\ schedules' = Upsert(schedules, d, Row(e, m))
    /\ req' = [req EXCEPT ![t] = [op |-> "set_auto_update", device_id |-> d]]
    /\ pc' = [pc EXCEPT ![t] = "rebuild"]
    /\ hist' = HCommit(t, d, schedules, schedules')
    /\ UNCHANGED <<settingsVars, runVars, products_cache, devices, running, jobs, execVars, now, snapshot, todo, legacyVars>>

\* set_auto_update: of the request body req only req.enabled and
\* req.interval_minutes are read; the row is committed and the jobs are rebuilt
set_auto_update(t, d, e, m) ==
    /\ pc[t] = "idle"
    /\ d \in devices
    /\ schedules' = Upsert(schedules, d, Row(e, m))
    /\ req' = [req EXCEPT ![t] = [op |-> "set_auto_update", device_id |-> d]]
    /\ pc' = [pc EXCEPT ![t] = "rebuild"]
    /\ hist' = HCommit(t, d, schedules, schedules')
    /\ UNCHANGED <<settingsVars, runVars, catalogVars, devices, running, jobs, execVars, now, snapshot, todo, legacyVars>>

delete_device(t, d) ==
    /\ pc[t] = "idle"
    /\ d \in devices
    /\ products_cache' = [products_cache EXCEPT ![d] = NoCache]
    /\ sch_last' = [sch_last EXCEPT ![d] = NoLast]
    /\ devices' = devices \ {d}
    /\ schedules' = DeleteRow(schedules, d)
    /\ req' = [req EXCEPT ![t] = [op |-> "delete_device", device_id |-> d]]
    /\ pc' = [pc EXCEPT ![t] = IF scheduler_enabled THEN "rebuild" ELSE "skipped"]
    /\ hist' = HCommit(t, d, schedules, schedules')
    /\ UNCHANGED <<settingsVars, runVars, running, jobs, execVars, now, snapshot, todo, legacyVars>>

\* ---- scheduler_rebuild_jobs_from_db, one step per scheduler or store call ----

\* the flag test, and schedules = db.query(AutoUpdateSchedule).all()
rebuild_query(t) ==
    /\ pc[t] = "rebuild"
    /\ IF ~scheduler_enabled
          THEN /\ pc' = [pc EXCEPT ![t] = "skipped"]
               /\ UNCHANGED <<snapshot, todo, hist>>
          ELSE /\ snapshot' = [snapshot EXCEPT ![t] = schedules]
               /\ todo' = [todo EXCEPT ![t] = DOMAIN schedules]
               /\ pc' = [pc EXCEPT ![t] = IF DOMAIN schedules = {} THEN "done" ELSE "get_job"]
               /\ hist' = IF DOMAIN schedules = {}
                             THEN HEnd(HQuery(t), t, TRUE, jobs)
                             ELSE HQuery(t)
    /\ UNCHANGED <<settingsVars, runVars, catalogVars, storeVars, running, jobs, execVars, now, req, legacyVars>>

\* a rebuild that never finds the job and so never removes it
rebuild_get_job_never(t) ==
    /\ pc[t] = "get_job"
    /\ pc' = [pc EXCEPT ![t] = "add_job"]
    /\ UNCHANGED <<settingsVars, runVars, catalogVars, storeVars, running, jobs, execVars, now, req, snapshot, todo, legacyVars, hist>>

\* if scheduler.get_job(job_id):
rebuild_get_job(t) ==
    /\ pc[t] = "get_job"
    /\ pc' = [pc EXCEPT ![t] = IF get_job(jobs, Min(todo[t])) # {} THEN "remove_job" ELSE "add_job"]
    /\ UNCHANGED <<settingsVars, runVars, catalogVars, storeVars, running, jobs, execVars, now, req, snapshot, todo, legacyVars, hist>>

\* a rebuild that removes the job it finds and goes on to the next row
\* without adding the job anew
rebuild_remove_job_only(t) ==
    /\ pc[t] = "remove_job"
    /\ LET d == Min(todo[t])
           last == todo[t] = {d}
       IN
         IF get_job(jobs, d) = {}
            THEN /\ pc' = [pc EXCEPT ![t] = "raised"]
                 /\ hist' = HEnd(hist, t, FALSE, jobs)
                 /\ UNCHANGED <<jobs, todo>>
            ELSE /\ \E j \in get_job(jobs, d) : jobs' = jobs \ {j}
                 /\ todo' = [todo EXCEPT ![t] = todo[t] \ {d}]
                 /\ pc' = [pc EXCEPT ![t] = IF last THEN "done" ELSE "get_job"]
                 /\ hist' = HForget(IF last THEN HEnd(hist, t, TRUE, jobs') ELSE hist, jobs')
    /\ UNCHANGED <<settingsVars, runVars, catalogVars, storeVars, running, execVars, now, req, snapshot, legacyVars>>

\* scheduler.remove_job(job_id): JobLookupError when no job has the id
rebuild_remove_job(t) ==
    /\ pc[t] = "remove_job"
    /\ LET d == Min(todo[t]) IN
         IF get_job(jobs, d) = {}
            THEN /\ pc' = [pc EXCEPT ![t] = "raised"]
                 /\ hist' = HEnd(hist, t, FALSE, jobs)
                 /\ UNCHANGED jobs
            ELSE /\ \E j \in get_job(jobs, d) :
                      /\ jobs' = jobs \ {j}
                      /\ hist' = HRemoved(HForget(hist, jobs'), j)
                 /\ pc' = [pc EXCEPT ![t] = "add_job"]
    /\ UNCHANGED <<settingsVars, runVars, catalogVars, storeVars, running, execVars, now, req, snapshot, todo, legacyVars>>

\* if sch.enabled: scheduler.add_job(...); then the next row of the loop
rebuild_add_job(t) ==
    /\ pc[t] = "add_job"
    /\ LET d == Min(todo[t])
           last == todo[t] = {d}
       IN
         /\ jobs' = IF snapshot[t][d].enabled
                       THEN add_job(jobs, d, snapshot[t][d].interval_minutes, now)
                       ELSE jobs
         /\ todo' = [todo EXCEPT ![t] = todo[t] \ {d}]
         /\ pc' = [pc EXCEPT ![t] = IF last THEN "done" ELSE "get_job"]
         /\ hist' = LET h == IF snapshot[t][d].enabled THEN HInstall(hist, d) ELSE hist
                    IN HPassed(HForget(IF last THEN HEnd(h, t, TRUE, jobs') ELSE h, jobs'), d)
    /\ UNCHANGED <<settingsVars, runVars, catalogVars, storeVars, running, execVars, now, req, snapshot, legacyVars>>

\* the handler returns (or answers 500 after JobLookupError)
handler_return(t) ==
    /\ pc[t] \in {"done", "skipped", "raised"}
    /\ pc' = [pc EXCEPT ![t] = "idle"]
    /\ req' = [req EXCEPT ![t] = NoReq]
    /\ snapshot' = [snapshot EXCEPT ![t] = NoRows]
    /\ todo' = [todo EXCEPT ![t] = {}]
    /\ hist' = HReturn(t)
    /\ UNCHANGED <<settingsVars, runVars, catalogVars, storeVars, running, jobs, execVars, now, legacyVars>>

\* ---- the timer and the executor ----

clock_tick ==
    /\ now < scope.horizon
    /\ now' = now + 1
    /\ UNCHANGED <<settingsVars, runVars, catalogVars, storeVars, running, jobs, execVars, threadVars, legacyVars, hist>>

\* The scheduler thread finds job j due: the due run times are coalesced and
\* submitted to the executor, which refuses them when max_instances runs of
\* the job id are active; the job's next run time moves past the clock.
\* A run time that is late may be dropped as a misfire.
process_job(j) ==
    /\ running
    /\ j \in jobs
    /\ Due(j, now) > 0
    /\ jobs' = (jobs \ {j}) \cup {Job(j.id, j.minutes, NextRunTime(j, now))}
    /\ IF instances[j.id] >= max_instances
          THEN /\ hist' = HForget(HSkipped(j.id, Due(j, now)), jobs')
               /\ UNCHANGED execVars
          ELSE \E calls \in (IF LastDue(j, now) = now THEN {Coalesced(Due(j, now))}
                                                     ELSE {0, Coalesced(Due(j, now))}) :
                  /\ hist' = HForget(HSubmitted(j, calls), jobs')
                  /\ IF calls = 0
                        THEN UNCHANGED execVars
                        ELSE /\ instances' = [instances EXCEPT ![j.id] = @ + 1]
                             /\ queued' = [queued EXCEPT ![j.id] = @ + calls - 1]
    /\ UNCHANGED <<settingsVars, runVars, catalogVars, storeVars, running, now, threadVars, legacyVars>>

\* a call of auto_update_job(d) ends; the instance goes on to its next run
\* time if it has one, else it is released
job_finish(d) ==
    /\ instances[d] > 0
    /\ IF queued[d] > 0
          THEN /\ queued' = [queued EXCEPT ![d] = @ - 1]
               /\ UNCHANGED <<instances, hist>>
          ELSE /\ instances' = [instances EXCEPT ![d] = @ - 1]
               /\ hist' = IF instances[d] = 1
                             THEN HForget(HFinished(d, DueOf(d, now)), jobs)
                             ELSE hist
               /\ UNCHANGED queued
    /\ UNCHANGED <<settingsVars, runVars, catalogVars, storeVars, running, jobs, now, threadVars, legacyVars>>

\* ---- auto_update_job(d), one step per store or device call ----

runFrame == <<settingsVars, storeVars, running, jobs, now, threadVars, legacyVars, hist,
              products_fix_mode, iso, upd>>

Noted(o, step) == [o EXCEPT !.steps = Append(@, step)]

\* get_scales(device) returns Scales(...): one more client of the call
Created(o) == [o EXCEPT !.clients = @ + 1]

\* the device has answered get_products_json() with `catalog`, or has taken it
\* in send_json_products: it is what the device holds
Accepted(o, catalog) == [o EXCEPT !.device = [known |-> TRUE, catalog |-> catalog]]

\* send_json_products(...) is called on client `scales`
Uploaded(o, scales) == [o EXCEPT !.uploads = Append(@, scales)]

\* the call goes on at position pc
Goto(d, r, pc_, o) ==
    /\ run' = [run EXCEPT ![d] = [r EXCEPT !.pc = pc_]]
    /\ obs' = [obs EXCEPT ![d] = o]

\* an exception e leaves the step: control goes to the except clauses
Raise(d, e, o) ==
    /\ run' = [run EXCEPT ![d] = [@ EXCEPT !.pc = "handle", !.err = e]]
    /\ obs' = [obs EXCEPT ![d] = [o EXCEPT !.raised = e]]

\* device.products_cache_json = json.dumps(products); device.cached_dirty = dirty;
\* db.add(device); db.commit(); db.refresh(device)
Saved(catalog, dirty) == [present |-> TRUE, catalog |-> catalog, dirty |-> dirty]

\* device = db.get(Device, device_id); if not device: return
run_lookup_device(d) ==
    /\ run[d].pc = "idle"
    /\ instances[d] > 0
    /\ IF d \notin devices
          THEN Goto(d, [NoRun EXCEPT !.caller = "job"], "end", NoObs)
          ELSE Goto(d, [NoRun EXCEPT !.caller = "job", !.view = products_cache[d]],
                    "lookup_schedule", [NoObs EXCEPT !.pre = products_cache[d]])
    /\ UNCHANGED <<runFrame, execVars, catalogVars>>

\* a lookup that returns only when the schedule row is missing
run_lookup_schedule_any(d) ==
    /\ run[d].pc = "lookup_schedule"
    /\ IF d \notin DOMAIN schedules
          THEN Goto(d, run[d], "end", obs[d])
          ELSE Goto(d, [run[d] EXCEPT !.sch = TRUE], "fetch", obs[d])
    /\ UNCHANGED <<runFrame, execVars, catalogVars>>

\* sch = db.query(AutoUpdateSchedule)...one_or_none();
\* if not sch or not sch.enabled: return
run_lookup_schedule(d) ==
    /\ run[d].pc = "lookup_schedule"
    /\ IF d \notin DOMAIN schedules \/ ~schedules[d].enabled
          THEN Goto(d, run[d], "end", obs[d])
          ELSE Goto(d, [run[d] EXCEPT !.sch = TRUE], "fetch", obs[d])
    /\ UNCHANGED <<runFrame, execVars, catalogVars>>

\* fetch_products_and_cache: scales = get_scales(device), which decrypts the
\* device password and may fail; products = scales.get_products_json()
run_fetch(d) ==
    /\ run[d].pc = "fetch"
    /\ \/ Raise(d, OtherError("decrypt"), obs[d])
       \/ Raise(d, DeviceError("fetch"), Noted(Created([obs[d] EXCEPT !.calls = @ + 1]), "fetch"))
       \/ \E c \in Catalogs :
             Goto(d, [run[d] EXCEPT !.products = c], "validate",
                  Accepted(Noted(Created([obs[d] EXCEPT !.calls = @ + 1]), "fetch"), c))
    /\ UNCHANGED <<runFrame, execVars, catalogVars>>

\* a fetch that saves the catalog first and validates it afterwards
run_save_validate(d) ==
    /\ run[d].pc = "validate"
    /\ IF d \notin devices
          THEN /\ Raise(d, OtherError("stale"), Noted(obs[d], "validate"))
               /\ UNCHANGED products_cache
          ELSE /\ products_cache' = [products_cache EXCEPT ![d] = Saved(run[d].products, FALSE)]
               /\ IF HasDuplicatePlu(run[d].products)
                     THEN Raise(d, DeviceError("duplicate"),
                                Noted([obs[d] EXCEPT !.cache_writes = @ + 1], "validate"))
                     ELSE Goto(d, [run[d] EXCEPT !.view = Saved(run[d].products, FALSE)],
                               IF run[d].caller = "job" THEN "transform" ELSE "end",
                               Noted(Noted([obs[d] EXCEPT !.cache_writes = @ + 1], "save"), "validate"))
    /\ UNCHANGED <<runFrame, execVars, sch_last>>

\* fetch_products_and_cache: validate_plu_uniqueness(products);
\* save_cached_products(db, device, products, dirty=False)
run_validate_save(d) ==
    /\ run[d].pc = "validate"
    /\ IF HasDuplicatePlu(run[d].products)
          THEN /\ Raise(d, DeviceError("duplicate"), Noted(obs[d], "validate"))
               /\ UNCHANGED products_cache
          ELSE IF d \notin devices
          THEN /\ Raise(d, OtherError("stale"), Noted(obs[d], "validate"))
               /\ UNCHANGED products_cache
          ELSE /\ products_cache' = [products_cache EXCEPT ![d] = Saved(run[d].products, FALSE)]
               /\ Goto(d, [run[d] EXCEPT !.view = Saved(run[d].products, FALSE)],
                       IF run[d].caller = "job" THEN "transform" ELSE "end",
                       Noted(Noted([obs[d] EXCEPT !.cache_writes = @ + 1], "validate"), "save"))
    /\ UNCHANGED <<runFrame, execVars, sch_last>>

\* a run that records its status right after the second save of the cache
run_transform_save_then_record(d) ==
    /\ run[d].pc = "transform"
    /\ LET dated == update_dates_only(run[d].products) IN
         IF d \notin devices
            THEN /\ Raise(d, OtherError("stale"), Noted(obs[d], "transform"))
                 /\ UNCHANGED products_cache
            ELSE /\ products_cache' = [products_cache EXCEPT ![d] = Saved(dated, FALSE)]
                 /\ Goto(d, [run[d] EXCEPT !.products = dated, !.view = Saved(dated, FALSE)], "record_ok",
                         Noted(Noted([obs[d] EXCEPT !.cache_writes = @ + 1], "transform"), "save"))
    /\ UNCHANGED <<runFrame, execVars, sch_last>>

\* products = update_dates_only(products);
\* save_cached_products(db, device, products, dirty=False)
run_transform_save(d) ==
    /\ run[d].pc = "transform"
    /\ LET dated == update_dates_only(run[d].products) IN
         IF d \notin devices
            THEN /\ Raise(d, OtherError("stale"), Noted(obs[d], "transform"))
                 /\ UNCHANGED products_cache
            ELSE /\ products_cache' = [products_cache EXCEPT ![d] = Saved(dated, FALSE)]
                 /\ Goto(d, [run[d] EXCEPT !.products = dated, !.view = Saved(dated, FALSE)], "push",
                         Noted(Noted([obs[d] EXCEPT !.cache_writes = @ + 1], "transform"), "save"))
    /\ UNCHANGED <<runFrame, execVars, sch_last>>

\* a push that uploads the cache without validating it
run_push_begin_unvalidated(d) ==
    /\ run[d].pc = "push"
    /\ IF ~run[d].view.present
          THEN Raise(d, DeviceError("no_cache"), obs[d])
          ELSE \/ Raise(d, OtherError("decrypt"), obs[d])
               \/ Goto(d, [run[d] EXCEPT !.products = run[d].view.catalog,
                                         !.scales = obs[d].clients + 1], "send", Created(obs[d]))
    /\ UNCHANGED <<runFrame, execVars, catalogVars>>

\* push_cache_to_scales up to the upload: the cache must be there,
\* scales = get_scales(device), products = load_cached_products(device),
\* validate_plu_uniqueness(products)
run_push_begin(d) ==
    /\ run[d].pc = "push"
    /\ IF ~run[d].view.present
          THEN Raise(d, DeviceError("no_cache"), obs[d])
          ELSE \/ Raise(d, OtherError("decrypt"), obs[d])
               \/ IF HasDuplicatePlu(run[d].view.catalog)
                     THEN Raise(d, DeviceError("duplicate"), Noted(Created(obs[d]), "push_validate"))
                     ELSE Goto(d, [run[d] EXCEPT !.products = run[d].view.catalog,
                                                 !.scales = obs[d].clients + 1], "send",
                               Noted(Created(obs[d]), "push_validate"))
    /\ UNCHANGED <<runFrame, execVars, catalogVars>>

\* a push that looks at settings.products_fix_mode the other way round
bulk_failed_inverted(d, o) ==
    IF products_fix_mode
       THEN Raise(d, DeviceError("bulk"), o)
       ELSE IF Len(run[d].products.items) = 0
       THEN Raise(d, DeviceError("bulk"), [o EXCEPT !.diagnosis = "exhausted"])
       ELSE Goto(d, [run[d] EXCEPT !.idx = 1], "diagnose", [o EXCEPT !.diagnosis = "running"])

\* except DeviceError as e: with products_fix_mode the diagnosis is run and
\* then e is raised again, without it e is raised again at once.
\* diagnose_broken_product over no items finds nothing.
bulk_failed(d, o) ==
    IF ~products_fix_mode
       THEN Raise(d, DeviceError("bulk"), o)
       ELSE IF Len(run[d].products.items) = 0
       THEN Raise(d, DeviceError("bulk"), [o EXCEPT !.diagnosis = "exhausted"])
       ELSE Goto(d, [run[d] EXCEPT !.idx = 1], "diagnose", [o EXCEPT !.diagnosis = "running"])

\* scales.send_json_products(products): it succeeds or raises DeviceError
run_send(d) ==
    /\ run[d].pc = "send"
    /\ LET o == Uploaded(Noted([obs[d] EXCEPT !.calls = @ + 1], "push"), run[d].scales) IN
         \/ Goto(d, run[d], "push_commit", Accepted(o, run[d].products))
         \/ bulk_failed(d, [o EXCEPT !.bulk_failed = TRUE])
    /\ UNCHANGED <<runFrame, execVars, catalogVars>>

\* a diagnosis that sends every item through the client of the bulk upload
run_diagnose_reusing(d) ==
    /\ run[d].pc = "diagnose"
    /\ LET item == run[d].products.items[run[d].idx]
           o == Uploaded([obs[d] EXCEPT !.calls = @ + 1, !.singles = Append(@, item)],
                         run[d].scales)
       IN
         \/ Raise(d, DeviceError(ProductMessage(run[d].idx, item)), [o EXCEPT !.diagnosis = "found"])
         \/ IF run[d].idx < Len(run[d].products.items)
               THEN Goto(d, [run[d] EXCEPT !.idx = @ + 1], "diagnose", o)
               ELSE Raise(d, DeviceError("bulk"), [o EXCEPT !.diagnosis = "exhausted"])
    /\ UNCHANGED <<runFrame, execVars, catalogVars>>

\* a diagnosis that goes on to the next item after a single upload has failed
\* and reports the last item that failed
run_diagnose_all(d) ==
    /\ run[d].pc = "diagnose"
    /\ LET item == run[d].products.items[run[d].idx]
           o == Uploaded(Created([obs[d] EXCEPT !.calls = @ + 1, !.singles = Append(@, item)]),
                         obs[d].clients + 1)
       IN \/ IF run[d].idx < Len(run[d].products.items)
                THEN Goto(d, [run[d] EXCEPT !.idx = @ + 1,
                                            !.err = DeviceError(ProductMessage(run[d].idx, item))],
                          "diagnose", [o EXCEPT !.diagnosis = "found"])
                ELSE Raise(d, DeviceError(ProductMessage(run[d].idx, item)),
                           [o EXCEPT !.diagnosis = "found"])
          \/ IF run[d].idx < Len(run[d].products.items)
                THEN Goto(d, [run[d] EXCEPT !.idx = @ + 1], "diagnose", o)
                ELSE IF obs[d].diagnosis = "found"
                THEN Raise(d, run[d].err, o)
                ELSE Raise(d, DeviceError("bulk"), [o EXCEPT !.diagnosis = "exhausted"])
    /\ UNCHANGED <<runFrame, execVars, catalogVars>>

\* diagnose_broken_product: item idx is sent alone; the first item that fails
\* raises DeviceError with the item's index and pluNumber, and when no item
\* fails the routine returns and the error of the bulk upload is raised again
run_diagnose(d) ==
    /\ run[d].pc = "diagnose"
    /\ LET item == run[d].products.items[run[d].idx]
           o == Uploaded(Created([obs[d] EXCEPT !.calls = @ + 1, !.singles = Append(@, item)]),
                         obs[d].clients + 1)
       IN
         \/ Raise(d, DeviceError(ProductMessage(run[d].idx, item)), [o EXCEPT !.diagnosis = "found"])
         \/ LET taken == Accepted(o, Catalog(<<item>>, run[d].products.dated)) IN
              IF run[d].idx < Len(run[d].products.items)
                 THEN Goto(d, [run[d] EXCEPT !.idx = @ + 1], "diagnose", taken)
                 ELSE Raise(d, DeviceError("bulk"), [taken EXCEPT !.diagnosis = "exhausted"])
    /\ UNCHANGED <<runFrame, execVars, catalogVars>>

\* push_cache_to_scales after the upload: device.cached_dirty = False;
\* db.add(device); db.commit(); db.refresh(device). The column is written
\* only when the session holds another value, and the refresh fails when the
\* row is gone.
run_push_commit(d) ==
    /\ run[d].pc = "push_commit"
    /\ IF d \notin devices
          THEN /\ Raise(d, OtherError("stale"), obs[d])
               /\ UNCHANGED products_cache
          ELSE /\ products_cache' = IF run[d].view.dirty
                                       THEN [products_cache EXCEPT ![d].dirty = FALSE]
                                       ELSE products_cache
               /\ Goto(d, [run[d] EXCEPT !.view = products_cache'[d]],
                       IF run[d].caller = "job" THEN "record_ok" ELSE "end",
                       [obs[d] EXCEPT !.cache_writes = IF run[d].view.dirty THEN @ + 1 ELSE @])
    /\ UNCHANGED <<runFrame, execVars, sch_last>>

\* sch.last_run_utc = utc_now_str(); sch.last_status = "OK"; sch.last_error = None;
\* db.add(sch); db.commit(): the commit fails when the row is gone
run_record_ok(d) ==
    /\ run[d].pc = "record_ok"
    /\ IF d \notin DOMAIN schedules
          THEN /\ Raise(d, OtherError("stale"), obs[d])
               /\ UNCHANGED sch_last
          ELSE /\ sch_last' = [sch_last EXCEPT ![d] =
                             [last_run_utc |-> now, last_status |-> "OK", last_error |-> <<>>]]
               /\ Goto(d, run[d], "end", Noted([obs[d] EXCEPT !.status_writes = @ + 1], "OK"))
    /\ UNCHANGED <<runFrame, execVars, products_cache>>

\* except DeviceError / except Exception of auto_update_job: the schedule is
\* read again and, if it is there, gets the status ERROR. In fetch_products
\* and upload_cache the error goes to the caller of the handler.
run_handle(d) ==
    /\ run[d].pc = "handle"
    /\ IF run[d].caller = "job" /\ d \in DOMAIN schedules
          THEN /\ sch_last' = [sch_last EXCEPT ![d] =
                             [last_run_utc |-> now, last_status |-> "ERROR",
                              last_error |-> last_error(run[d].err)]]
               /\ Goto(d, run[d], "end", Noted([obs[d] EXCEPT !.status_writes = @ + 1], "ERROR"))
          ELSE /\ Goto(d, run[d], "end", obs[d])
               /\ UNCHANGED sch_last
    /\ UNCHANGED <<runFrame, execVars, products_cache>>

\* finally: db.close(), and auto_update_job returns to the executor, which
\* releases the instance; fetch_products and upload_cache answer the request
run_return(d) ==
    /\ run[d].pc = "end"
    /\ run' = [run EXCEPT ![d] = NoRun]
    /\ obs' = [obs EXCEPT ![d] = NoObs]
    /\ instances' = IF run[d].caller = "job"
                       THEN [instances EXCEPT ![d] = @ - 1]
                       ELSE instances
    /\ UNCHANGED <<runFrame, queued, catalogVars>>

\* ---- request handlers of api/v1/products.py ----

\* fetch_products: dev = get_user_device_or_404(...); fetch_products_and_cache(db, dev)
fetch_products(d) ==
    /\ run[d].pc = "idle"
    /\ instances[d] = 0
    /\ d \in devices
    /\ Goto(d, [NoRun EXCEPT !.caller = "fetch", !.view = products_cache[d]], "fetch",
            [NoObs EXCEPT !.pre = products_cache[d]])
    /\ UNCHANGED <<runFrame, execVars, catalogVars>>

\* upload_cache: dev = get_user_device_or_404(...); push_cache_to_scales(db, dev)
upload_cache(d) ==
    /\ run[d].pc = "idle"
    /\ instances[d] = 0
    /\ d \in devices
    /\ Goto(d, [NoRun EXCEPT !.caller = "upload", !.view = products_cache[d]], "push",
            [NoObs EXCEPT !.pre = products_cache[d]])
    /\ UNCHANGED <<runFrame, execVars, catalogVars>>

\* ---- upload_cache served by a request thread of the worker pool ----

uploadFrame == <<settingsVars, runVars, storeVars, running, jobs, execVars, now, snapshot, todo,
                 legacyVars, hist, sch_last>>

\* upload_cache up to the upload: dev = get_user_device_or_404(...), and in
\* push_cache_to_scales the cache must be there and pass
\* validate_plu_uniqueness, else DeviceError is answered as 503
upload_cache_begin(t, d) ==
    /\ pc[t] = "idle"
    /\ d \in devices
    /\ d \in scope.cached
    /\ req' = [req EXCEPT ![t] = [op |-> "upload_cache", device_id |-> d,
                                  cached_dirty |-> products_cache[d].dirty]]
    /\ pc' = [pc EXCEPT ![t] =
                IF ~products_cache[d].present \/ HasDuplicatePlu(products_cache[d].catalog)
                   THEN "raised"
                   ELSE "send"]
    /\ UNCHANGED <<uploadFrame, products_cache>>

\* scales.send_json_products(products) returns or raises DeviceError; with
\* settings.products_fix_mode the diagnosis follows the error
upload_cache_send(t) ==
    /\ pc[t] = "send"
    /\ \E answer \in {"push_commit", IF products_fix_mode THEN "diagnose" ELSE "raised"} :
          pc' = [pc EXCEPT ![t] = answer]
    /\ UNCHANGED <<uploadFrame, products_cache, req>>

\* diagnose_broken_product has uploaded the items one by one; the error of
\* the bulk upload is raised again and answered as 503
upload_cache_diagnose(t) ==
    /\ pc[t] = "diagnose"
    /\ pc' = [pc EXCEPT ![t] = "raised"]
    /\ UNCHANGED <<uploadFrame, products_cache, req>>

\* device.cached_dirty = False; db.add(device); db.commit(); db.refresh(device)
upload_cache_commit(t) ==
    /\ pc[t] = "push_commit"
    /\ IF req[t].device_id \notin devices
          THEN /\ pc' = [pc EXCEPT ![t] = "raised"]
               /\ UNCHANGED products_cache
          ELSE /\ pc' = [pc EXCEPT ![t] = "done"]
               /\ products_cache' = IF req[t].cached_dirty
                                       THEN [products_cache EXCEPT ![req[t].device_id].dirty = FALSE]
                                       ELSE products_cache
    /\ UNCHANGED <<uploadFrame, req>>

\* the steps of upload_cache on the request threads
UploadRequests ==
    \/ \E t \in scope.threads, d \in scope.devices : upload_cache_begin(t, d)
    \/ \E t \in scope.threads : upload_cache_send(t)
    \/ \E t \in scope.threads : upload_cache_diagnose(t)
    \/ \E t \in scope.threads : upload_cache_commit(t)

\* the item list with the first item of pluNumber plu given pluNumber newplu
Patched(items, plu, newplu) ==
    LET first == CHOOSE i \in 1..Len(items) :
                    items[i] = plu /\ \A k \in 1..(i - 1) : items[k] # plu
    IN [items EXCEPT ![first] = newplu]

\* patch_product_by_plu: the fields of the request, pluNumber among them, are
\* written to the first cached item of that pluNumber; the cache is saved dirty
patch_product_by_plu(d, plu, newplu) ==
    /\ d \in devices
    /\ products_cache[d].present
    /\ \E i \in 1..Len(products_cache[d].catalog.items) : products_cache[d].catalog.items[i] = plu
    /\ LET c == products_cache[d].catalog
           saved == Saved(Catalog(Patched(c.items, plu, newplu), c.dated), TRUE)
       IN /\ products_cache' = [products_cache EXCEPT ![d] = saved]
          /\ obs' = [obs EXCEPT ![d].pre = IF run[d].pc = "idle" THEN @ ELSE saved]
    /\ UNCHANGED <<runFrame, execVars, sch_last, run>>

\* the steps of fetch_products_and_cache
FetchSteps ==
    \/ \E d \in scope.devices : run_fetch(d)
    \/ \E d \in scope.devices : run_validate_save(d)

\* the steps of push_cache_to_scales
PushSteps ==
    \/ \E d \in scope.devices : run_push_begin(d)
    \/ \E d \in scope.devices : run_send(d)
    \/ \E d \in scope.devices : run_diagnose(d)
    \/ \E d \in scope.devices : run_push_commit(d)

\* the steps of auto_update_job
Runner ==
    \/ \E d \in scope.devices : run_lookup_device(d)
    \/ \E d \in scope.devices : run_lookup_schedule(d)
    \/ FetchSteps
    \/ \E d \in scope.devices : run_transform_save(d)
    \/ PushSteps
    \/ \E d \in scope.devices : run_record_ok(d)
    \/ \E d \in scope.devices : run_handle(d)
    \/ \E d \in scope.devices : run_return(d)

\* the requests of one client, each sent after the answer to the one before
Products ==
    \/ \E d \in scope.devices : fetch_products(d)
    \/ \E d \in scope.devices : upload_cache(d)
    \/ \E d \in scope.devices, plu \in 1..MaxPlu, newplu \in 1..MaxPlu :
          run[d].pc = "idle" /\ patch_product_by_plu(d, plu, newplu)

\* ---- find_products_breaking_upload, one step per upload ----

isoFrame == <<settingsVars, storeVars, running, jobs, now, threadVars, legacyVars, hist,
              products_fix_mode, execVars, catalogVars, run, obs, upd>>

\* _build_payload_with_products: payload = copy.deepcopy(template_payload);
\* payload["products"] = products_subset
build_payload_with_products(template_payload, products_subset) ==
    [template_payload EXCEPT !.products = products_subset]

\* upload_fn(payload) raises
Fails(payload) ==
    \/ Range(payload.products) \in iso.failing
    \/ \E g \in iso.defects : g \subseteq Range(payload.products)

\* _try_upload_payload: the payload goes to upload_fn, under a label
Tried(c, label, payload) == [c EXCEPT !.log = Append(@, [label |-> label, payload |-> payload])]

\* a call that empties the products of the payload it is given instead of
\* those of a copy
find_products_breaking_upload_in_place(call) ==
    /\ iso = NoCall
    /\ call \in Calls(scope.isolate)
    /\ iso' = [pc |-> "scan",
               full_payload |-> [call.full_payload EXCEPT !.products = <<>>],
               given |-> call.full_payload,
               failing |-> call.failing, defects |-> call.defects,
               initial_chunk_size |-> call.initial_chunk_size,
               max_chunk_size |-> call.max_chunk_size,
               template_payload |-> [call.full_payload EXCEPT !.products = <<>>],
               items |-> <<>>,
               chunk_size |-> Larger(1, call.initial_chunk_size),
               ok_count |-> 0, idx |-> 0,
               bad_items |-> <<>>, minimal_failing_groups |-> <<>>,
               current_chunk |-> <<>>, group |-> <<>>, depth |-> 0,
               failing_group |-> <<>>, k |-> 0, log |-> <<>>]
    /\ UNCHANGED isoFrame

\* find_products_breaking_upload up to its loop: template_payload =
\* copy.deepcopy(full_payload); template_payload["products"] = [];
\* items = full_payload["products"]; chunk_size = max(1, initial_chunk_size)
find_products_breaking_upload(call) ==
    /\ iso = NoCall
    /\ call \in Calls(scope.isolate)
    /\ iso' = [pc |-> "scan",
               full_payload |-> call.full_payload,
               given |-> call.full_payload,
               failing |-> call.failing, defects |-> call.defects,
               initial_chunk_size |-> call.initial_chunk_size,
               max_chunk_size |-> call.max_chunk_size,
               template_payload |-> [call.full_payload EXCEPT !.products = <<>>],
               items |-> call.full_payload.products,
               chunk_size |-> Larger(1, call.initial_chunk_size),
               ok_count |-> 0, idx |-> 0,
               bad_items |-> <<>>, minimal_failing_groups |-> <<>>,
               current_chunk |-> <<>>, group |-> <<>>, depth |-> 0,
               failing_group |-> <<>>, k |-> 0, log |-> <<>>]
    /\ UNCHANGED isoFrame

\* a scan that counts a chunk as uploaded whether or not its upload has failed
scan_chunk_counting_all ==
    /\ iso.pc = "scan"
    /\ iso.idx < Len(iso.items)
    /\ LET current_chunk == SubSeq(iso.items, iso.idx + 1,
                                   Smaller(Len(iso.items), iso.idx + iso.chunk_size))
           payload == build_payload_with_products(iso.template_payload, current_chunk)
           c == Tried([iso EXCEPT !.current_chunk = current_chunk,
                                  !.ok_count = @ + Len(current_chunk)], "chunk", payload)
       IN iso' =
            IF ~Fails(payload)
               THEN [c EXCEPT !.idx = @ + Len(current_chunk),
                              !.chunk_size = IF @ < iso.max_chunk_size
                                                THEN Smaller(iso.max_chunk_size, @ * 2) ELSE @]
            ELSE IF Len(current_chunk) > 1
               THEN [c EXCEPT !.pc = "bisect", !.group = current_chunk, !.depth = 1]
               ELSE [c EXCEPT !.bad_items = Append(@, current_chunk[1]),
                              !.idx = @ + 1,
                              !.chunk_size = Larger(1, iso.initial_chunk_size)]
    /\ UNCHANGED isoFrame

\* while idx < total: the chunk from idx on is uploaded. If it passes, idx
\* moves past it and chunk_size doubles up to max_chunk_size; a chunk of
\* several items that fails is bisected; a single item that fails is a bad item
scan_chunk ==
    /\ iso.pc = "scan"
    /\ iso.idx < Len(iso.items)
    /\ LET current_chunk == SubSeq(iso.items, iso.idx + 1,
                                   Smaller(Len(iso.items), iso.idx + iso.chunk_size))
           payload == build_payload_with_products(iso.template_payload, current_chunk)
           c == Tried([iso EXCEPT !.current_chunk = current_chunk], "chunk", payload)
       IN iso' =
            IF ~Fails(payload)
               THEN [c EXCEPT !.ok_count = @ + Len(current_chunk),
                              !.idx = @ + Len(current_chunk),
                              !.chunk_size = IF @ < iso.max_chunk_size
                                                THEN Smaller(iso.max_chunk_size, @ * 2) ELSE @]
            ELSE IF Len(current_chunk) > 1
               THEN [c EXCEPT !.pc = "bisect", !.group = current_chunk, !.depth = 1]
               ELSE [c EXCEPT !.bad_items = Append(@, current_chunk[1]),
                              !.idx = @ + 1,
                              !.chunk_size = Larger(1, iso.initial_chunk_size)]
    /\ UNCHANGED isoFrame

\* return FindBadProductsResult(...)
find_return ==
    /\ iso.pc = "scan"
    /\ iso.idx >= Len(iso.items)
    /\ iso' = [iso EXCEPT !.pc = "returned"]
    /\ UNCHANGED isoFrame

\* _bisect_find_minimal_failing_group returns g to the scan:
\* minimal_failing_groups.append(failing_group)
Returned(c, g) ==
    [c EXCEPT !.pc = "singles", !.failing_group = g, !.k = 1,
              !.minimal_failing_groups = Append(@, g)]

\* return _bisect_find_minimal_failing_group(..., g, ...): one more frame, up
\* to the recursion limit
Recursed(c, g) ==
    IF c.depth >= MaxDepth
       THEN [c EXCEPT !.pc = "RecursionError"]
       ELSE [c EXCEPT !.pc = "bisect", !.group = g, !.depth = @ + 1]

\* if len(group) <= 1: return group
bisect_base ==
    /\ iso.pc = "bisect"
    /\ Len(iso.group) <= 1
    /\ iso' = Returned(iso, iso.group)
    /\ UNCHANGED isoFrame

Left(group) == SubSeq(group, 1, Len(group) \div 2)

Right(group) == SubSeq(group, Len(group) \div 2 + 1, Len(group))

\* the left half is uploaded; if it fails the search goes on in it
bisect_left ==
    /\ iso.pc = "bisect"
    /\ Len(iso.group) > 1
    /\ LET payload == build_payload_with_products(iso.template_payload, Left(iso.group))
           c == Tried(iso, "L", payload)
       IN iso' = IF Fails(payload) THEN Recursed(c, Left(iso.group))
                                   ELSE [c EXCEPT !.pc = "right"]
    /\ UNCHANGED isoFrame

\* a search that ends at a right half that fails and returns the group
bisect_right_stops ==
    /\ iso.pc = "right"
    /\ LET payload == build_payload_with_products(iso.template_payload, Right(iso.group))
           c == Tried(iso, "R", payload)
       IN iso' = IF Fails(payload) THEN Returned(c, iso.group)
                                   ELSE [c EXCEPT !.pc = "combo", !.k = 1]
    /\ UNCHANGED isoFrame

\* the right half is uploaded; if it fails the search goes on in it
bisect_right ==
    /\ iso.pc = "right"
    /\ LET payload == build_payload_with_products(iso.template_payload, Right(iso.group))
           c == Tried(iso, "R", payload)
       IN iso' = IF Fails(payload) THEN Recursed(c, Right(iso.group))
                                   ELSE [c EXCEPT !.pc = "combo", !.k = 1]
    /\ UNCHANGED isoFrame

\* for item in right: candidate = [left[0]] + [item] is uploaded; the first
\* candidate that fails is searched in turn
bisect_combo ==
    /\ iso.pc = "combo"
    /\ iso.k <= Len(Right(iso.group))
    /\ LET candidate == <<Left(iso.group)[1], Right(iso.group)[iso.k]>>
           payload == build_payload_with_products(iso.template_payload, candidate)
           c == Tried(iso, "COMBO", payload)
       IN iso' = IF Fails(payload) THEN Recursed(c, candidate)
                                   ELSE [c EXCEPT !.k = @ + 1]
    /\ UNCHANGED isoFrame

\* no candidate has failed: return group
bisect_give_up ==
    /\ iso.pc = "combo"
    /\ iso.k > Len(Right(iso.group))
    /\ iso' = Returned(iso, iso.group)
    /\ UNCHANGED isoFrame

\* a check that blames every item of the failing group
check_single_blaming ==
    /\ iso.pc = "singles"
    /\ iso.k <= Len(iso.failing_group)
    /\ LET it == iso.failing_group[iso.k]
           payload == build_payload_with_products(iso.template_payload, <<it>>)
           c == Tried(iso, "single", payload)
       IN iso' = [c EXCEPT !.k = @ + 1, !.bad_items = Append(@, it)]
    /\ UNCHANGED isoFrame

\* for it in failing_group: the item is uploaded alone, and is a bad item if
\* that fails
check_single ==
    /\ iso.pc = "singles"
    /\ iso.k <= Len(iso.failing_group)
    /\ LET it == iso.failing_group[iso.k]
           payload == build_payload_with_products(iso.template_payload, <<it>>)
           c == Tried(iso, "single", payload)
       IN iso' = [c EXCEPT !.k = @ + 1,
                           !.bad_items = IF Fails(payload) THEN Append(@, it) ELSE @]
    /\ UNCHANGED isoFrame

\* idx += len(current_chunk); chunk_size = max(1, initial_chunk_size)
scan_resume ==
    /\ iso.pc = "singles"
    /\ iso.k > Len(iso.failing_group)
    /\ iso' = [iso EXCEPT !.pc = "scan",
                          !.idx = @ + Len(iso.current_chunk),
                          !.chunk_size = Larger(1, iso.initial_chunk_size)]
    /\ UNCHANGED isoFrame

\* ---- update_dates_only ----

updFrame == <<settingsVars, storeVars, running, jobs, now, threadVars, legacyVars, hist,
              products_fix_mode, execVars, catalogVars, run, obs, iso>>

\* shelf = int(p.get("shelfLifeInDays", 0) or 0)
shelf(p) == IF p.shelfLifeInDays.has = "int" THEN p.shelfLifeInDays.days ELSE 0

\* an update that takes the items apart and puts them together from the
\* fields it knows
update_item_known_fields(p, today) ==
    IF ~p.dict THEN p
    ELSE [ScalarItem EXCEPT !.dict = TRUE, !.pluNumber = p.pluNumber,
                            !.shelfLifeInDays = p.shelfLifeInDays,
                            !.manufactureDate = Fmt(today),
                            !.sellByDate = Fmt(today + shelf(p))]

\* the body of the loop: if not isinstance(p, dict): continue;
\* p["manufactureDate"] = today.strftime(fmt);
\* p["sellByDate"] = (today + timedelta(days=shelf)).strftime(fmt)
update_item(p, today) ==
    IF ~p.dict THEN p
    ELSE [p EXCEPT !.manufactureDate = Fmt(today),
                   !.sellByDate = Fmt(today + shelf(p))]

\* update_dates_only(products) on the day `today`, on the fields of the items:
\* a "products" that is not a list is returned as it is
update_dates_only_fields(products, today) ==
    IF ~products.listed THEN products
    ELSE [products EXCEPT !.products = [i \in DOMAIN @ |-> update_item(@[i], today)]]

\* update_dates_only is called: today = datetime.now()
update_dates_call(products, today) ==
    /\ scope.isolate = "dates"
    /\ upd = NoUpdate
    /\ upd' = [pc |-> "called", given |-> products, products |-> products, today |-> today]
    /\ UNCHANGED updFrame

\* the items are changed in place and the catalog is returned
update_dates_return ==
    /\ upd.pc = "called"
    /\ upd' = [upd EXCEPT !.pc = "returned",
                          !.products = update_dates_only_fields(upd.products, upd.today)]
    /\ UNCHANGED updFrame

\* the steps of update_dates_only
UpdateDates ==
    \/ \E products \in DatedPayloads, today \in 1..MaxDay : update_dates_call(products, today)
    \/ update_dates_return

\* the steps of find_products_breaking_upload
Isolate ==
    \/ iso = NoCall /\ \E call \in Calls(scope.isolate) : find_products_breaking_upload(call)
    \/ scan_chunk
    \/ find_return
    \/ bisect_base
    \/ bisect_left
    \/ bisect_right
    \/ bisect_combo
    \/ bisect_give_up
    \/ check_single
    \/ scan_resume

\* ---- the older entry point: app/main.py with app/scheduler.py ----

\* rebuild_jobs_from_db(): for every row of the table, the job of the row's
\* device is removed if there is one and added anew if the row is enabled
rebuild_jobs_from_db(table, rows, t) ==
    {j \in table : j.id \notin DOMAIN rows}
       \cup {Job(d, rows[d].interval_minutes, t + rows[d].interval_minutes) :
                d \in {x \in DOMAIN rows : rows[x].enabled}}

\* the store is read by rebuild_jobs_from_db
HLegacyRead == [hist EXCEPT !.flagOffRead = @ \/ ~scheduler_enabled]

\* startup(): scheduler.start(); rebuild_jobs_from_db()
legacy_startup ==
    /\ ~legacy_running
    /\ legacy_running' = TRUE
    /\ legacy_jobs' = rebuild_jobs_from_db(legacy_jobs, schedules, now)
    /\ hist' = HLegacyRead
    /\ UNCHANGED <<settingsVars, runVars, catalogVars, storeVars, running, jobs, execVars, now, threadVars>>

legacy_create_device(d) ==
    /\ d \notin devices
    /\ products_cache' = [products_cache EXCEPT ![d] = NoCache]
    /\ sch_last' = [sch_last EXCEPT ![d] = NoLast]
    /\ devices' = devices \cup {d}
    /\ schedules' = Upsert(schedules, d, Row(scheduler_enabled, scheduler_interval))
    /\ legacy_jobs' = rebuild_jobs_from_db(legacy_jobs, schedules', now)
    /\ hist' = HLegacyRead
    /\ UNCHANGED <<settingsVars, runVars, running, jobs, execVars, now, threadVars, legacy_running>>

legacy_set_auto_update(d, e, m) ==
    /\ d \in devices
    /\ schedules' = Upsert(schedules, d, Row(e, m))
    /\ legacy_jobs' = rebuild_jobs_from_db(legacy_jobs, schedules', now)
    /\ hist' = HLegacyRead
    /\ UNCHANGED <<settingsVars, runVars, catalogVars, devices, running, jobs, execVars, now, threadVars, legacy_running>>

legacy_delete_device(d) ==
    /\ d \in devices
    /\ products_cache' = [products_cache EXCEPT ![d] = NoCache]
    /\ sch_last' = [sch_last EXCEPT ![d] = NoLast]
    /\ devices' = devices \ {d}
    /\ schedules' = DeleteRow(schedules, d)
    /\ IF scheduler_enabled
          THEN /\ legacy_jobs' = rebuild_jobs_from_db(legacy_jobs, schedules', now)
               /\ hist' = HLegacyRead
          ELSE UNCHANGED <<legacy_jobs, hist>>
    /\ UNCHANGED <<settingsVars, runVars, running, jobs, execVars, now, threadVars, legacy_running>>

Legacy ==
    \/ legacy_startup
    \/ \E d \in scope.devices : legacy_create_device(d)
    \/ \E d \in scope.devices, e \in BOOLEAN, m \in Intervals : legacy_set_auto_update(d, e, m)
    \/ \E d \in scope.devices : legacy_delete_device(d)

\* ---- specifications ----

Handlers ==
    \/ \E t \in scope.threads, d \in scope.devices : create_device(t, d)
    \/ \E t \in scope.threads, d \in scope.devices, e \in BOOLEAN, m \in Intervals :
          set_auto_update(t, d, e, m)
    \/ \E t \in scope.threads, d \in scope.devices : delete_device(t, d)
    \/ \E t \in scope.threads : rebuild_query(t)
    \/ \E t \in scope.threads : rebuild_get_job(t)
    \/ \E t \in scope.threads : rebuild_remove_job(t)
    \/ \E t \in scope.threads : rebuild_add_job(t)
    \/ \E t \in scope.threads : handler_return(t)

Timer ==
    \/ clock_tick
    \/ \E j \in jobs : process_job(j)
    \/ \E d \in Devices : job_finish(d)

Next ==
    \/ scheduler_start
    \/ scheduler_shutdown
    \/ Handlers
    \/ Timer

\* one device, two request threads, the timer: runs and ticks
Init ==
    /\ scope = [threads |-> Threads, devices |-> {1}, cached |-> {}, isolate |-> "off", horizon |-> MaxTime,
                observe |-> {"runs"}]
    /\ InitProgram

Spec == Init /\ [][Next]_vars

\* the same, observing the calls of scheduler_start
InitLifecycle ==
    /\ scope = [threads |-> Threads, devices |-> {1}, cached |-> {}, isolate |-> "off", horizon |-> MaxTime,
                observe |-> {"lifecycle"}]
    /\ InitProgram

SpecLifecycle == InitLifecycle /\ [][Next]_vars

\* two devices, one request thread, the clock stopped: rebuilds in succession
InitStore ==
    /\ scope = [threads |-> {"w1"}, devices |-> Devices, cached |-> {}, isolate |-> "off", horizon |-> 0,
                observe |-> {"rebuild", "c5", "c7"}]
    /\ InitProgram

SpecStore == InitStore /\ [][Handlers]_vars

\* one device, two request threads, the timer: reconfiguration
InitReconf ==
    /\ scope = [threads |-> Threads, devices |-> {1}, cached |-> {}, isolate |-> "off", horizon |-> ReconfTime,
                observe |-> {"rebuild", "c5", "c6"}]
    /\ InitProgram

SpecReconf == InitReconf /\ [][Next]_vars

\* one device, one request thread, the timer: what a rebuild does to the run
\* time of a job
InitRefire ==
    /\ scope = [threads |-> {"w1"}, devices |-> {1}, cached |-> {}, isolate |-> "off", horizon |-> ReconfTime,
                observe |-> {"removed"}]
    /\ InitProgram

SpecRefire == InitRefire /\ [][Next]_vars

\* both entry points of the rebuild over one store: one device, one thread
InitLegacy ==
    /\ scope = [threads |-> {"w1"}, devices |-> {1}, cached |-> {}, isolate |-> "off", horizon |-> 0,
                observe |-> {}]
    /\ InitProgram

SpecLegacy == InitLegacy /\ [][Handlers \/ Legacy]_vars

\* one device, one request thread, the timer, and the calls of
\* auto_update_job step by step
Ticks ==
    \/ clock_tick
    \/ \E j \in jobs : process_job(j)

NextRunner ==
    \/ scheduler_start
    \/ scheduler_shutdown
    \/ Handlers
    \/ Ticks
    \/ Runner

InitRunner ==
    /\ scope = [threads |-> {"w1"}, devices |-> {1}, cached |-> {1}, isolate |-> "off", horizon |-> 1,
                observe |-> {}]
    /\ InitAfter({1})
    /\ products_cache \in [scope.cached -> CachesBefore]
    /\ products_fix_mode \in BOOLEAN

SpecRunner == InitRunner /\ [][NextRunner]_vars

\* the runs of the scheduler together with upload_cache requests served by
\* a request thread
NextOverlap ==
    \/ NextRunner
    \/ UploadRequests

InitOverlap ==
    /\ scope = [threads |-> {"w1"}, devices |-> {1}, cached |-> {1}, isolate |-> "off", horizon |-> 1,
                observe |-> {}]
    /\ InitAfter({1})
    /\ products_cache = [d \in scope.cached |-> Saved(Catalog(<<1>>, FALSE), TRUE)]
    /\ products_fix_mode \in BOOLEAN

SpecOverlap == InitOverlap /\ [][NextOverlap]_vars

\* one device, one request thread, the clock stopped: the handlers of
\* api/v1/products.py on any cache they can leave behind
NextProducts ==
    \/ Products
    \/ FetchSteps
    \/ PushSteps
    \/ \E d \in scope.devices : run_handle(d)
    \/ \E d \in scope.devices : run_return(d)

InitProducts ==
    /\ scope = [threads |-> {"w1"}, devices |-> {1}, cached |-> {1}, isolate |-> "off", horizon |-> 0,
                observe |-> {}]
    /\ InitAfter({1})
    /\ products_cache = [d \in scope.cached |-> NoCache]
    /\ products_fix_mode \in BOOLEAN

SpecProducts == InitProducts /\ [][NextProducts]_vars

\* find_products_breaking_upload on up to MaxGroup products, for every
\* outcome function
InitIsolate ==
    /\ scope = [threads |-> {"w1"}, devices |-> {1}, cached |-> {}, isolate |-> "tables", horizon |-> 0,
                observe |-> {}]
    /\ InitProgram
    /\ ~scheduler_enabled
    /\ scheduler_service_enabled

SpecIsolate == InitIsolate /\ [][Isolate]_vars

\* find_products_breaking_upload on up to MaxTotal products with at most one
\* defect
InitDefects ==
    /\ scope = [threads |-> {"w1"}, devices |-> {1}, cached |-> {}, isolate |-> "defects", horizon |-> 0,
                observe |-> {}]
    /\ InitProgram
    /\ ~scheduler_enabled
    /\ scheduler_service_enabled

SpecDefects == InitDefects /\ [][Isolate]_vars

\* update_dates_only on every catalog of DatedPayloads
InitDates ==
    /\ scope = [threads |-> {"w1"}, devices |-> {1}, cached |-> {}, isolate |-> "dates", horizon |-> 0,
                observe |-> {}]
    /\ InitProgram
    /\ ~scheduler_enabled
    /\ scheduler_service_enabled

SpecDates == InitDates /\ [][UpdateDates]_vars

\* ---- properties ----

\* thread t has completed a rebuild that no other rebuild overlapped and
\* during which the store did not change, and no rebuild is running now
Alone(t) ==
    /\ pc[t] = "done"
    /\ ~hist.overlap[t]
    /\ ~hist.mutated[t]
    /\ \A u \in Threads \ {t} : ~InRebuild(u)

\* the job table holds, for the rows of `rows`, exactly the jobs of the
\* enabled rows, with their intervals
Reconciled(rows) ==
    \A d \in DOMAIN rows :
       /\ rows[d].enabled <=> get_job(jobs, d) # {}
       /\ Cardinality(get_job(jobs, d)) <= 1
       /\ \A j \in get_job(jobs, d) : j.minutes = rows[d].interval_minutes

\* C1: at most one scheduler-started run of auto_update_job(D) is active at any
\* time, whatever the ticks, the run durations and the rebuilds do; a tick that
\* finds a run active is refused, it is neither queued nor run beside it.
C1_AtMostOneRun == \A d \in Devices : instances[d] + queued[d] <= 1

\* a run is active, a tick of its job was refused meanwhile, and a rebuild
\* installed the device's job anew during the run
C1_Witness ==
    \E d \in Devices : instances[d] = 1 /\ hist.cur[d] >= 1 /\ hist.reinstalled[d]

\* C8: when k >= 1 ticks of D's job pass during a run of D, at most one run of
\* D starts after it on account of those ticks.
C8_OneCatchUp == \A d \in Devices : hist.catchUp[d] <= 1

\* two ticks passed during the last run, and one catch-up run was started
C8_Witness == \E d \in Devices : hist.k[d] >= 2 /\ hist.catchUp[d] = 1

\* C10: scheduler_start() on a running scheduler changes nothing, and with
\* scheduler_service_enabled off it changes nothing and the scheduler is never
\* running.
C10_StartIdempotent ==
    /\ [](~scheduler_service_enabled => ~running)
    /\ [][(scheduler_start /\ (running \/ ~scheduler_service_enabled))
            => UNCHANGED <<running, jobs, instances, queued, devices, schedules>>]_vars

\* scheduler_start() was called on the running scheduler, which still runs
C10_Witness == hist.noopStart /\ running /\ jobs # {}

\* C2: with scheduler_enabled on, after a rebuild that ran alone and during
\* which the store did not change, every schedule row has a job iff it is
\* enabled, at most one, and the job's interval is the row's interval_minutes.
C2_RebuildReconciles ==
    \A t \in Threads : (scheduler_enabled /\ Alone(t)) => Reconciled(schedules)

\* such a rebuild has ended with an enabled row that has its job and a
\* disabled row whose job it removed
C2_Witness ==
    \E t \in Threads :
       /\ scheduler_enabled
       /\ Alone(t)
       /\ \E d \in DOMAIN schedules : schedules[d].enabled
       /\ \E x \in DOMAIN schedules : hist.c5[x] = "quiet"

\* C3: when two rebuilds overlapped and both have finished, the job table is
\* the one derived from the snapshot that was read last.
C3_LastSnapshotWins ==
    (\A t \in Threads : pc[t] = "done" /\ hist.overlap[t])
       => Reconciled(snapshot[hist.lastRead])

\* C4: after delete_device and the rebuild it triggers, the job table holds no
\* job of the deleted device.
C4_DeletedDeviceHasNoJob ==
    \A t \in Threads :
       (pc[t] = "done" /\ req[t].op = "delete_device" /\ req[t].device_id \notin devices)
          => get_job(jobs, req[t].device_id) = {}

\* C5: once a schedule was switched from enabled to disabled and a rebuild that
\* ran alone has completed after it, the device has no job and no run of it is
\* started, for as long as the schedule is not enabled again.
C5_DisabledStaysQuiet ==
    [][\A d \in Devices :
          hist.c5[d] = "quiet" =>
             /\ get_job(jobs, d) = {}
             /\ hist.c5'[d] = "quiet" => instances'[d] <= instances[d]]_vars

\* the schedule was disabled and rebuilt, the scheduler runs, and the time at
\* which the removed job would have fired has come
C5_Witness ==
    \E d \in Devices : hist.c5[d] = "quiet" /\ running /\ now = ReconfTime /\ d \in devices

\* C6: after set_auto_update changed the interval of an enabled schedule from
\* a to b and its rebuild has completed, the device's job has interval b and
\* fires no later than b minutes from now.
C6_NewIntervalInEffect ==
    \A t \in Threads :
       (/\ pc[t] = "done" /\ req[t].op = "set_auto_update" /\ hist.changed[t] > 0
        /\ \A u \in Threads \ {t} : ~InRebuild(u))
          => \E j \in get_job(jobs, req[t].device_id) :
                /\ j.minutes = schedules[req[t].device_id].interval_minutes
                /\ j.next_run_time <= now + j.minutes

\* the same when the rebuild ran alone
C6_NewIntervalInEffectAlone ==
    \A t \in Threads :
       (/\ Alone(t) /\ req[t].op = "set_auto_update" /\ hist.changed[t] > 0)
          => \E j \in get_job(jobs, req[t].device_id) :
                /\ j.minutes = schedules[req[t].device_id].interval_minutes
                /\ j.next_run_time <= now + j.minutes

\* C7: a rebuild that follows a rebuild with no schedule change from the start
\* of the first to the end of the second leaves the same job set: the same
\* device ids with the same intervals.
C7_RebuildIdempotent ==
    \A t \in Threads :
       (Alone(t) /\ hist.base[t] # Invalid) => JobSet(jobs) = hist.base[t]

\* a second rebuild in succession has completed, and the job set is not empty
C7_Witness ==
    \E t \in Threads : Alone(t) /\ hist.base[t] # Invalid /\ hist.base[t] # {}

\* C9: with scheduler_enabled off no rebuild reads the schedule store and the
\* job tables stay as they were, whichever entry point is called.
C9_FlagOffRebuildIsNoOp ==
    ~scheduler_enabled => (jobs = {} /\ legacy_jobs = {} /\ ~hist.flagOffRead)

\* the same for scheduler_rebuild_jobs_from_db alone
C9_ServiceRebuildIsNoOp ==
    ~scheduler_enabled => (jobs = {} /\ \A t \in Threads : snapshot[t] = NoRows /\ ~InRebuild(t))

\* a step of the call in progress for device d
RunStep(d) ==
    \/ run_lookup_device(d)
    \/ run_lookup_schedule(d)
    \/ run_fetch(d)
    \/ run_validate_save(d)
    \/ run_transform_save(d)
    \/ run_push_begin(d)
    \/ run_send(d)
    \/ run_diagnose(d)
    \/ run_push_commit(d)
    \/ run_record_ok(d)
    \/ run_handle(d)
    \/ run_return(d)

\* the call of auto_update_job(d) has ended and not yet returned
Ended(d) == run[d].pc = "end" /\ run[d].caller = "job"

\* C11: scheduler_shutdown() leaves the scheduler stopped and a run starts
\* only while the scheduler is running; the shutdown step itself changes no
\* run in flight, no instance count, no recorded status and no cache (it
\* neither waits nor cancels); and a run in flight can always take its next
\* step, whether or not the scheduler is still running.
C11_ShutdownLeavesRuns ==
    /\ [][scheduler_shutdown => ~running']_vars
    /\ [][\A d \in scope.devices : instances'[d] > instances[d] => running]_vars
    /\ [][scheduler_shutdown => UNCHANGED <<instances, queued, run, sch_last, products_cache>>]_vars
    /\ [](\A d \in scope.devices : instances[d] > 0 => ENABLED RunStep(d))

\* the scheduler was shut down during a run, and the run has gone on to its
\* end and recorded its status
C11_Witness ==
    \E d \in scope.devices : ~running /\ Ended(d) /\ obs[d].status_writes = 1

\* the lookups of auto_update_job(d) find nothing to run: no device, no
\* schedule row, or a row that is not enabled
GuardFails(d) ==
    \/ run[d].pc = "idle" /\ instances[d] > 0 /\ d \notin devices
    \/ run[d].pc = "lookup_schedule" /\ (d \notin DOMAIN schedules \/ ~schedules[d].enabled)

\* the call of auto_update_job(d) takes a step
RunMoves(d) == run'[d] # run[d]

\* C12: when the device is missing, the schedule row is missing or the row is
\* not enabled at the lookup, the run returns at once: the step that finds it
\* out goes to the return and leaves the cache and lastRunAt / lastStatus /
\* lastError as they are, and the run that returns this way has made no call
\* to the device, no write of the cache and no write of the status.
C12_GuardedOutDoesNothing ==
    /\ [][\A d \in scope.devices : GuardFails(d) /\ RunMoves(d) =>
              /\ run'[d].pc = "end" /\ ~run'[d].sch
              /\ obs'[d].calls = 0 /\ obs'[d].cache_writes = 0 /\ obs'[d].status_writes = 0
              /\ UNCHANGED <<sch_last, products_cache>>]_vars
    /\ [](\A d \in scope.devices : Ended(d) /\ ~run[d].sch =>
              /\ obs[d].steps = <<>>
              /\ obs[d].calls = 0 /\ obs[d].cache_writes = 0 /\ obs[d].status_writes = 0)

\* a run has returned at the lookup of a schedule row that is there but not
\* enabled, with a cache of the device in the store
C12_Witness ==
    \E d \in scope.devices :
        /\ Ended(d) /\ ~run[d].sch
        /\ d \in DOMAIN schedules /\ ~schedules[d].enabled
        /\ products_cache[d].present /\ products_cache[d] = obs[d].pre

\* the steps of a run that passes the lookups, in the order of the code
JobSteps == <<"fetch", "validate", "save", "transform", "save", "push", "OK">>

\* a step of JobSteps; the validation inside push_cache_to_scales and the
\* write of ERROR are noted under other names
IsJobStep(step) == step \notin {"push_validate", "ERROR"}

\* the steps noted so far are the first steps of JobSteps
InOrder(steps) ==
    LET done == SelectSeq(steps, IsJobStep)
    IN /\ Len(done) <= Len(JobSteps)
       /\ done = SubSeq(JobSteps, 1, Len(done))

\* C13: a run that passes the lookups fetches, validates the uniqueness of
\* pluNumber, saves the cache not dirty, transforms the dates, saves the
\* cache not dirty and pushes, in this order; lastStatus = OK is written with
\* lastError = null, and only after all of these steps with a push that has
\* succeeded.
C13_StepsInOrder ==
    /\ [](\A d \in scope.devices : run[d].caller = "job" => InOrder(obs[d].steps))
    /\ [][\A d \in scope.devices :
              Len(obs'[d].steps) > Len(obs[d].steps) /\ obs'[d].steps[Len(obs'[d].steps)] = "save"
                 => products_cache'[d].present /\ ~products_cache'[d].dirty]_vars
    /\ [][\A d \in scope.devices :
              sch_last'[d] # sch_last[d] /\ sch_last'[d].last_status = "OK"
                 => /\ sch_last'[d].last_error = <<>>
                    /\ SelectSeq(obs'[d].steps, IsJobStep) = JobSteps
                    /\ ~obs'[d].bulk_failed /\ obs'[d].calls = 1 + 1]_vars

\* a run has gone through all the steps and recorded OK
C13_Witness ==
    \E d \in scope.devices :
        /\ Ended(d)
        /\ SelectSeq(obs[d].steps, IsJobStep) = JobSteps
        /\ sch_last[d].last_status = "OK" /\ sch_last[d].last_error = <<>>

\* the except clauses of the run of auto_update_job(d) are left with error
\* class kind
Handled(d, kind) ==
    /\ run[d].pc = "handle" /\ run[d].caller = "job" /\ run[d].err.kind = kind
    /\ RunMoves(d)

\* C14: a device error raised by the fetch, the validation or the push does
\* not leave auto_update_job: the run ends with lastStatus = ERROR and
\* lastError equal to the message of the error, and after a failed fetch or a
\* failed validation the run makes no push to the device.
C14_DeviceErrorRecorded ==
    /\ [][\A d \in scope.devices : Handled(d, "DeviceError") =>
              /\ run'[d].pc = "end"
              /\ sch_last'[d].last_status = "ERROR"
              /\ sch_last'[d].last_error = <<run[d].err.msg>>]_vars
    /\ [](\A d \in scope.devices :
              run[d].caller = "job" /\ obs[d].raised \in {DeviceError("fetch"), DeviceError("duplicate")}
                 /\ "transform" \notin {obs[d].steps[i] : i \in 1..Len(obs[d].steps)}
                 => "push" \notin {obs[d].steps[i] : i \in 1..Len(obs[d].steps)})

\* C15: an error that is not a device error ends the run with lastStatus =
\* ERROR and a lastError that starts with 'Unexpected: ', and a device error
\* is never recorded with that marker.
C15_UnexpectedMarked ==
    /\ [][\A d \in scope.devices : Handled(d, "Exception") =>
              /\ sch_last'[d].last_status = "ERROR"
              /\ StartsWithMarker(sch_last'[d].last_error)]_vars
    /\ [][\A d \in scope.devices : Handled(d, "DeviceError") =>
              ~StartsWithMarker(sch_last'[d].last_error)]_vars

\* C16: a run that passes the lookups of the device and of the schedule and
\* ends has written lastRunAt / lastStatus / lastError exactly once, also when
\* the schedule row is deleted or disabled during the run.
C16_StatusWrittenOnce ==
    \A d \in scope.devices : Ended(d) /\ run[d].sch => obs[d].status_writes = 1

\* the steps noted for the run of d
StepsOf(d) == {obs[d].steps[i] : i \in 1..Len(obs[d].steps)}

\* the fetch of the run of d has failed, or the catalog it fetched has failed
\* the validation
FetchFailed(d) ==
    /\ run[d].caller = "job"
    /\ obs[d].raised \in {DeviceError("fetch"), OtherError("decrypt"), DeviceError("duplicate")}
    /\ "transform" \notin StepsOf(d)

\* C17: when the fetch fails, or the fetched catalog fails the uniqueness
\* validation, the run leaves the cached catalog and its dirty flag as they
\* were before the run: it ends without a write of the cache, no step of it
\* changes the cache, and the cache of a device that no request has touched
\* meanwhile is the cache of before.
C17_FailedFetchKeepsCache ==
    /\ [](\A d \in scope.devices : FetchFailed(d) => obs[d].cache_writes = 0)
    /\ [][\A d \in scope.devices : RunMoves(d) /\ products_cache'[d] # products_cache[d]
              => obs'[d].cache_writes > obs[d].cache_writes]_vars
    /\ [][\A d \in scope.devices : RunMoves(d) /\ FetchFailed(d)'
              => products_cache'[d] = products_cache[d]]_vars
    /\ [](\A d \in scope.devices : FetchFailed(d) /\ Ended(d) /\ d \in devices /\ obs[d].pre.present
              => products_cache[d] \in {obs[d].pre, NoCache})

\* a run whose fetched catalog had a duplicate pluNumber has ended, and the
\* cache is the edited one of before the run
C17_Witness ==
    \E d \in scope.devices :
        /\ Ended(d) /\ FetchFailed(d)
        /\ obs[d].raised = DeviceError("duplicate")
        /\ obs[d].pre.present /\ obs[d].pre.dirty
        /\ products_cache[d] = obs[d].pre

\* the call for d has ended with the error of the uniqueness validation
DuplicateFound(d) ==
    run[d].pc \in {"handle", "end"} /\ obs[d].raised = DeviceError("duplicate")

\* C18 as stated: a catalog with a duplicate pluNumber fails the validation
\* with no call to the device at all, in fetch_products_and_cache as in
\* push_cache_to_scales.
C18_NoDeviceCallOnDuplicate ==
    \A d \in scope.devices : DuplicateFound(d) => obs[d].calls = 0

\* C18: a cache with a duplicate pluNumber never gets to the upload:
\* push_cache_to_scales fails at the validation with no call to the device.
\* fetch_products_and_cache has the catalog from the device, so it has made
\* that one call when the validation fails, and makes no other call and no
\* write of the cache.
C18_NoUploadOfDuplicate ==
    /\ [][\A d \in scope.devices :
              run[d].pc = "push" /\ run[d].view.present /\ HasDuplicatePlu(run[d].view.catalog)
                 /\ RunMoves(d)
              => run'[d].pc = "handle" /\ obs'[d].calls = obs[d].calls]_vars
    /\ [][\A d \in scope.devices :
              run[d].pc = "validate" /\ HasDuplicatePlu(run[d].products) /\ RunMoves(d)
              => /\ run'[d].pc = "handle" /\ obs'[d].raised = DeviceError("duplicate")
                 /\ obs'[d].calls = obs[d].calls
                 /\ products_cache'[d] = products_cache[d]]_vars
    /\ [](\A d \in scope.devices :
              run[d].pc \in {"send", "diagnose", "push_commit"} => ~HasDuplicatePlu(run[d].products))
    /\ [](\A d \in scope.devices : DuplicateFound(d) =>
              /\ obs[d].calls = (IF run[d].caller = "upload" THEN 0 ELSE 1)
              /\ obs[d].cache_writes = 0)

\* an upload of a cache that an edit has given a duplicate pluNumber has
\* failed at the validation
C18_Witness ==
    \E d \in scope.devices :
        /\ DuplicateFound(d) /\ run[d].caller = "upload"
        /\ HasDuplicatePlu(products_cache[d].catalog) /\ products_cache[d].dirty
        /\ obs[d].calls = 0

\* the bulk upload of the call for d has failed and the error has left
\* push_cache_to_scales
BulkErrorOut(d) == obs[d].bulk_failed /\ run[d].pc \in {"handle", "end"}

\* C19: a failed bulk upload without products_fix_mode is raised again at
\* once, with no other upload to the device; with products_fix_mode the
\* diagnosis is run on the catalog before an error leaves
\* push_cache_to_scales. In both modes the failed upload ends in a device
\* error: the cache is not marked clean and no OK is recorded.
C19_BulkFailureIsAnError ==
    /\ [][\A d \in scope.devices : ~products_fix_mode /\ RunMoves(d) /\ obs'[d].bulk_failed
              => /\ run'[d].pc \in {"handle", "end", "idle"}
                 /\ run'[d].pc = "handle" => obs'[d].raised = DeviceError("bulk")
                 /\ obs[d].bulk_failed => obs'[d].calls = obs[d].calls]_vars
    /\ [](\A d \in scope.devices : ~products_fix_mode /\ obs[d].bulk_failed => obs[d].diagnosis = "none")
    /\ [](\A d \in scope.devices : products_fix_mode /\ obs[d].bulk_failed =>
              IF BulkErrorOut(d) THEN obs[d].diagnosis \in {"found", "exhausted"}
                                 ELSE run[d].pc = "diagnose" /\ obs[d].diagnosis = "running")
    /\ [](\A d \in scope.devices : obs[d].bulk_failed =>
              /\ run[d].pc \notin {"push_commit", "record_ok"}
              /\ "OK" \notin StepsOf(d)
              /\ BulkErrorOut(d) => obs[d].raised.kind = "DeviceError")

\* with products_fix_mode a bulk upload has failed, the diagnosis has found
\* the item that fails alone, and the run has recorded the error
C19_Witness ==
    \E d \in scope.devices :
        /\ products_fix_mode /\ Ended(d) /\ obs[d].bulk_failed
        /\ obs[d].diagnosis = "found"
        /\ sch_last[d].last_status = "ERROR"

\* C20: a bulk upload that fails with products_fix_mode and a diagnosis that
\* finds every item uploadable alone leave a recorded result of their own,
\* not the lastError that the same failure leaves without products_fix_mode.
C20_ExhaustionHasOwnResult ==
    [][\A d \in scope.devices :
          Handled(d, "DeviceError") /\ obs[d].diagnosis = "exhausted" /\ d \in DOMAIN schedules
          => sch_last'[d].last_error # last_error(DeviceError("bulk"))]_vars

\* C25: a schedule row that create_device or get_auto_update creates is
\* created with enabled = false, whatever the global flags are.
C25_CreatedDisabled ==
    [][\A d \in scope.devices :
          d \notin DOMAIN schedules /\ d \in DOMAIN schedules'
          => ~schedules'[d].enabled]_vars

\* C26: the test for the job of a device and the removal or insertion after
\* it are atomic with respect to other rebuilds: no rebuild tries to remove a
\* job that another rebuild has removed since the test, the table never
\* holds two jobs of one device, and it holds no job of a device whose
\* schedule all rebuilds in progress have read as not enabled.
C26_CheckThenActAtomic ==
    /\ [](\A t \in scope.threads : pc[t] # "raised")
    /\ [](\A d \in scope.devices : Cardinality(get_job(jobs, d)) <= 1)

\* the call of find_products_breaking_upload has ended with a result
IsoReturned == iso.pc = "returned"

\* _bisect_find_minimal_failing_group calls itself
BisectRecurses ==
    iso.pc \in {"bisect", "right", "combo"} /\ iso'.pc \in {"bisect", "RecursionError"}

\* C21: find_products_breaking_upload ends with a result for every list of
\* items and every outcome function, also when two items pass alone and
\* fail together, and _bisect_find_minimal_failing_group never calls itself
\* on a group equal to the one it was given.
C21_BisectNeverOnOwnInput ==
    /\ [][BisectRecurses => iso'.pc = "bisect" /\ iso'.group # iso.group]_vars
    /\ [](iso.pc # "RecursionError")

\* the uploads of the call so far that carry one of `labels`
Uploads(labels) == SelectSeq(iso.log, LAMBDA a : a.label \in labels)

\* the least e with 2^e >= n
CeilLog2(n) == CHOOSE e \in 0..n : 2^e >= n /\ \A f \in 0..(e - 1) : 2^f < n

\* the call has exactly one defect: item k fails in every payload it is in
SingleDefect(k) == iso.pc # "off" /\ iso.failing = {} /\ iso.defects = {{k}}

\* the chunks of the scan that have failed
FailedChunks == SelectSeq(Uploads({"chunk"}), LAMBDA a : Fails(a.payload))

\* C22: with exactly one item k that fails, alone and in every payload that
\* holds it, find_products_breaking_upload returns bad_items = [item k] for
\* every k and every chunk size; the bisection of the chunk that failed
\* takes at most two uploads per halving of it, and one upload confirms k.
C22_SingleDefectFound ==
    \A k \in 1..MaxTotal : SingleDefect(k) =>
        /\ iso.pc # "RecursionError"
        /\ Len(FailedChunks) <= 1
        /\ Len(Uploads({"COMBO"})) = 0
        /\ Len(Uploads({"single"})) <= 1
        /\ \A i \in 1..Len(FailedChunks) :
              Len(Uploads({"L", "R"})) <= 2 * CeilLog2(Len(FailedChunks[i].payload.products))
        /\ iso.pc = "returned" =>
              /\ iso.bad_items = <<k>>
              /\ Range(iso.minimal_failing_groups) \subseteq {<<k>>}
              /\ iso.ok_count + Len(FailedChunks[1].payload.products) = Len(iso.items)

\* the one defect was the third of a chunk of four or more, found by a
\* bisection of more than two uploads
C22_Witness ==
    /\ SingleDefect(3) /\ iso.pc = "returned"
    /\ iso.bad_items = <<3>>
    /\ Len(FailedChunks[1].payload.products) >= 4
    /\ Len(Uploads({"L", "R"})) > 2
    /\ Len(Uploads({"single"})) = 1

\* the call has exactly one defect: items a and b pass alone and fail in
\* every payload that holds both
PairDefect(a, b) == iso.pc # "off" /\ iso.failing = {} /\ a # b /\ iso.defects = {{a, b}}

\* the call has ended, with a result or with an exception
IsoEnded == iso.pc \in {"returned", "RecursionError"}

\* C23: with two items A and B that pass alone and fail together, and that
\* fall in one chunk of the scan, find_products_breaking_upload reports the
\* minimal failing group [A, B] and no bad item.
C23_PairReported ==
    \A a \in 1..MaxTotal, b \in 1..MaxTotal :
        PairDefect(a, b) /\ a < b /\ IsoEnded /\ Len(FailedChunks) > 0 =>
            /\ iso.pc = "returned"
            /\ iso.minimal_failing_groups = <<(<<a, b>>)>>
            /\ iso.bad_items = <<>>

\* C28: every group in minimal_failing_groups fails when it is uploaded as
\* a whole, and with any one of its items taken out it passes.
C28_GroupsMinimal ==
    iso.pc = "returned" =>
        \A i \in 1..Len(iso.minimal_failing_groups) :
            LET g == iso.minimal_failing_groups[i]
                Without(j) == SubSeq(g, 1, j - 1) \o SubSeq(g, j + 1, Len(g))
            IN /\ Fails(build_payload_with_products(iso.template_payload, g))
               /\ \A j \in 1..Len(g) :
                     Len(g) > 1 => ~Fails(build_payload_with_products(iso.template_payload, Without(j)))

\* sub holds items of list in the order of list; an item is its place in
\* the list the call was given
IsSublist(sub, list) ==
    /\ Range(sub) \subseteq Range(list)
    /\ \A i \in 1..Len(sub), j \in 1..Len(sub) : i < j => sub[i] < sub[j]

\* C24: find_products_breaking_upload leaves full_payload as it was given:
\* the products, their order and the fields of the template; and every
\* payload that goes to upload_fn is the fields of the template with a
\* sublist of the products given.
C24_InputNotMutated ==
    iso.pc # "off" =>
        /\ iso.full_payload = iso.given
        /\ \A i \in 1..Len(iso.log) :
              /\ iso.log[i].payload.template = iso.given.template
              /\ IsSublist(iso.log[i].payload.products, iso.given.products)

\* a call on three or more products has returned after uploads of chunks,
\* halves, pairs and single items
C24_Witness ==
    /\ iso.pc = "returned"
    /\ Len(iso.given.products) >= 3
    /\ iso.full_payload = iso.given
    /\ Len(Uploads({"chunk"})) > 0 /\ Len(Uploads({"L", "R"})) > 0
    /\ Len(Uploads({"COMBO"})) > 0 /\ Len(Uploads({"single"})) > 0

\* the scan has uploaded a chunk and it has passed
ChunkPassed == iso.pc = "scan" /\ iso'.pc = "scan" /\ iso'.ok_count > iso.ok_count

\* the scan goes on after a chunk that has failed
ChunkFailedBefore ==
    \/ iso.pc = "singles" /\ iso'.pc = "scan"
    \/ iso.pc = "scan" /\ iso'.pc = "scan" /\ Len(iso'.bad_items) > Len(iso.bad_items)

\* C29: in the scan the chunk size after a chunk that passes is
\* min(max_chunk_size, 2 * the size before), the chunk size after a chunk
\* that fails is initial_chunk_size, and no chunk uploaded has more than
\* max_chunk_size items, for every initial_chunk_size and max_chunk_size.
C29_ChunkSizeRule ==
    /\ [][ChunkPassed => iso'.chunk_size = Smaller(iso.max_chunk_size, 2 * iso.chunk_size)]_vars
    /\ [][ChunkFailedBefore => iso'.chunk_size = iso.initial_chunk_size]_vars
    /\ [](iso.pc # "off" =>
             \A i \in 1..Len(iso.log) :
                iso.log[i].label = "chunk" =>
                   Len(iso.log[i].payload.products) <= iso.max_chunk_size)


\* the chunks of the doubling sequence over `items` from index idx on: `size`
\* items, then twice as many, up to `most`, the last one cut at the end
RECURSIVE DoublingChunks(_, _, _, _)
DoublingChunks(items, idx, size, most) ==
    IF idx >= Len(items)
       THEN <<>>
       ELSE <<SubSeq(items, idx + 1, Smaller(Len(items), idx + size))>>
               \o DoublingChunks(items, idx + size, Smaller(most, 2 * size), most)

\* every upload of the call succeeds
AllSucceed == iso.pc # "off" /\ iso.failing = {} /\ iso.defects = {}

\* C30: when every upload succeeds, the call uploads the chunks of the doubling
\* sequence (initial, 2*initial, ... capped at max_chunk_size, the last one cut
\* at the end of the list), each once and nothing else, and returns ok_count =
\* total_count with no bad item and no minimal failing group; twenty default
\* chunks of products take 5 uploads with the default sizes.
C30_DoublingScan ==
    (AllSucceed /\ IsoReturned) =>
       LET chunks == DoublingChunks(iso.items, 0,
                                    Smaller(iso.max_chunk_size, iso.initial_chunk_size),
                                    iso.max_chunk_size)
       IN /\ iso.log = [i \in 1..Len(chunks) |->
                          [label |-> "chunk",
                           payload |-> build_payload_with_products(iso.template_payload, chunks[i])]]
          /\ iso.ok_count = Len(iso.items)
          /\ iso.bad_items = <<>>
          /\ iso.minimal_failing_groups = <<>>
          /\ (/\ Len(iso.items) = 20 * initial_chunk_size
              /\ iso.initial_chunk_size = initial_chunk_size
              /\ iso.max_chunk_size = max_chunk_size) => Len(iso.log) = 5


\* the diagnosis of the call for d has found the item it reports: the item
\* of the last single upload, at its place in the catalog counted from 1
FoundItem(d) ==
    LET n == Len(obs[d].singles)
    IN DeviceError(ProductMessage(n, run[d].products.items[n]))

\* C27: with products_fix_mode the diagnosis uploads the items of the catalog
\* one at a time in catalog order and stops at the first single upload that
\* fails: no item is uploaded after it, the error that reaches auto_update_job
\* names that item by its index counted from 1 and its pluNumber, it is not
\* the error of the bulk upload, and it is what the run records as lastError.
C27_DiagnosisNamesFirstFailure ==
    /\ [](\A d \in scope.devices :
             /\ obs[d].singles = SubSeq(run[d].products.items, 1, Len(obs[d].singles))
             /\ obs[d].singles # <<>> => products_fix_mode /\ obs[d].bulk_failed)
    /\ [][\A d \in scope.devices :
             obs[d].diagnosis = "found" => Len(obs'[d].singles) <= Len(obs[d].singles)]_vars
    /\ [](\A d \in scope.devices :
             obs[d].diagnosis = "found" =>
                /\ run[d].pc \in {"handle", "end"}
                /\ run[d].err = FoundItem(d)
                /\ run[d].err # DeviceError("bulk"))
    /\ [][\A d \in scope.devices :
             Handled(d, "DeviceError") /\ obs[d].diagnosis = "found" /\ d \in DOMAIN schedules
             => /\ sch_last'[d].last_status = "ERROR"
                /\ sch_last'[d].last_error = <<FoundItem(d).msg>>]_vars

\* the first item of a catalog of two was uploaded alone, the second has
\* failed alone, and the run has recorded the error that names the second
C27_Witness ==
    \E d \in scope.devices :
        /\ products_fix_mode /\ Ended(d)
        /\ Len(obs[d].singles) = 1 + 1
        /\ obs[d].singles[1] # obs[d].singles[1 + 1]
        /\ sch_last[d].last_error = <<ProductMessage(1 + 1, obs[d].singles[1 + 1])>>


\* the upload of item `it` alone, as the call builds it
Alone1(it) == build_payload_with_products(iso.template_payload, <<it>>)

\* the call has uploaded item `it` alone and that upload has failed
FailedAlone(it) ==
    \E i \in 1..Len(iso.log) : iso.log[i].payload = Alone1(it) /\ Fails(iso.log[i].payload)

\* C31: every item in bad_items has failed an upload in which it was the only
\* item; an item that succeeds alone is never in bad_items, also when it is in
\* a reported failing group.
C31_OnlyAloneFailuresBlamed ==
    iso.pc # "off" =>
       /\ \A i \in 1..Len(iso.bad_items) : FailedAlone(iso.bad_items[i])
       /\ \A it \in Range(iso.items) : ~Fails(Alone1(it)) => it \notin Range(iso.bad_items)

\* the call has returned a failing group of several items, each of which was
\* uploaded alone without failing, and no item is blamed
C31_Witness ==
    /\ IsoReturned
    /\ \E i \in 1..Len(iso.minimal_failing_groups) :
          LET g == iso.minimal_failing_groups[i]
          IN /\ Len(g) > 1
             /\ \A m \in 1..Len(g) :
                   /\ ~Fails(Alone1(g[m]))
                   /\ \E x \in 1..Len(iso.log) :
                         iso.log[x].label = "single" /\ iso.log[x].payload = Alone1(g[m])
    /\ iso.bad_items = <<>>


\* the outcome function of a set B of bad items: an upload fails exactly when
\* it holds an item of B
FailsOnAny(B) ==
    /\ iso.defects = {}
    /\ iso.failing = {S \in SUBSET Range(iso.items) \ {{}} : S \cap B # {}}

\* C37: when an upload fails exactly when it holds one of the bad items of a
\* set B, the call returns bad_items equal to B, also when several bad items
\* lie in one scan chunk.
C37_AllBadItemsFound ==
    IsoReturned =>
       \A B \in SUBSET Range(iso.items) : FailsOnAny(B) => Range(iso.bad_items) = B


\* the scan chunks uploaded so far, in the order of their uploads
ScanChunks == [i \in 1..Len(Uploads({"chunk"})) |-> Uploads({"chunk"})[i].payload.products]

RECURSIVE Flat(_)
\* the sequences of `chunks` one after the other
Flat(chunks) == IF chunks = <<>> THEN <<>> ELSE chunks[1] \o Flat(Tail(chunks))

RECURSIVE SizeOf(_, _)
\* the number of items in the chunks of `chunks` whose upload has failed
\* (failed = TRUE) or has passed (failed = FALSE)
SizeOf(chunks, failed) ==
    IF chunks = <<>> THEN 0
    ELSE (IF Fails(build_payload_with_products(iso.template_payload, chunks[1])) = failed
             THEN Len(chunks[1]) ELSE 0) + SizeOf(Tail(chunks), failed)

C32_FreshClientPerAttempt ==
    /\ [](\A d \in scope.devices :
             /\ \A i, k \in 1..Len(obs[d].uploads) : i # k => obs[d].uploads[i] # obs[d].uploads[k]
             /\ \A i \in 1..Len(obs[d].uploads) : obs[d].uploads[i] \in 1..obs[d].clients
             /\ obs[d].bulk_failed =>
                   \A i \in 2..Len(obs[d].uploads) : obs[d].uploads[i] # run[d].scales)
    /\ [][\A d \in scope.devices :
             run[d].pc = "diagnose" /\ obs'[d].singles # obs[d].singles
             => /\ obs'[d].clients = obs[d].clients + 1
                /\ obs'[d].uploads = Append(obs[d].uploads, obs'[d].clients)]_vars

\* a bulk upload has failed and two items have been uploaded alone: three
\* uploads of the push
C32_Witness ==
    \E d \in scope.devices :
        /\ products_fix_mode /\ obs[d].bulk_failed
        /\ Len(obs[d].singles) = 1 + 1
        /\ Len(obs[d].uploads) = Len(obs[d].singles) + 1
        /\ obs[d].uploads[1] = run[d].scales


\* item q is item p but for the two dates
SameButDates(p, q) ==
    [q EXCEPT !.manufactureDate = p.manufactureDate, !.sellByDate = p.sellByDate] = p

\* C33: update_dates_only changes only manufactureDate and sellByDate of the
\* items: their number and order, every other field of an item, pluNumber
\* among them, and the fields of the catalog outside "products" are as before;
\* every item that is a dict gets the day of the run as manufactureDate and
\* that day plus shelfLifeInDays as sellByDate, which is the manufactureDate
\* when the shelf life is missing, null or zero.
C33_OnlyDatesChange ==
    upd.pc = "returned" =>
       /\ upd.products.template = upd.given.template
       /\ upd.products.listed = upd.given.listed
       /\ Len(upd.products.products) = Len(upd.given.products)
       /\ \A i \in 1..Len(upd.given.products) :
             LET p == upd.given.products[i]
                 q == upd.products.products[i]
             IN /\ SameButDates(p, q)
                /\ ~p.dict => q = p
                /\ p.dict =>
                      /\ q.manufactureDate = Fmt(upd.today)
                      /\ q.sellByDate =
                            Fmt(upd.today + (IF p.shelfLifeInDays.has = "int"
                                                THEN p.shelfLifeInDays.days ELSE 0))
                      /\ (p.shelfLifeInDays.has # "int" \/ p.shelfLifeInDays.days = 0)
                            => q.sellByDate = q.manufactureDate

\* a catalog of two items has been updated: one without a shelf life, one with
\* a shelf life of some days whose sellByDate is now another day than its
\* manufactureDate
C33_Witness ==
    /\ upd.pc = "returned"
    /\ Len(upd.products.products) = 1 + 1
    /\ upd.products.products[1].shelfLifeInDays.has = "missing"
    /\ upd.products.products[1 + 1].shelfLifeInDays.days > 0
    /\ upd.products.products[1 + 1].sellByDate # upd.products.products[1 + 1].manufactureDate
    /\ upd.products.products[1 + 1].name = "name"


\* the audit fields of a schedule row agree with each other
AuditConsistent(row) ==
    /\ row.last_status \in {"none", "OK", "ERROR"}
    /\ row.last_status = "OK" => row.last_error = <<>>
    /\ row.last_status = "ERROR" => row.last_error # <<>>
    /\ row.last_status # "none" => row.last_run_utc >= 0

\* C38: in every state the audit fields of every schedule row agree:
\* lastStatus is unset, OK or ERROR; OK goes with no lastError, ERROR with a
\* lastError, a set lastStatus with a set lastRunAt; and set_auto_update leaves
\* the three fields as they were, whatever the request body holds for them.
C38_AuditFieldsConsistent ==
    /\ [](\A d \in DOMAIN sch_last : AuditConsistent(sch_last[d]))
    /\ [][(\E t \in scope.threads, d \in scope.devices, e \in BOOLEAN, m \in Intervals :
              set_auto_update(t, d, e, m)) => sch_last' = sch_last]_vars

\* a run has recorded ERROR, and a set_auto_update that disabled the schedule
\* afterwards has left the record in place
C38_Witness ==
    \E d \in DOMAIN sch_last :
        /\ sch_last[d].last_status = "ERROR"
        /\ d \in DOMAIN schedules /\ ~schedules[d].enabled
        /\ run[d].pc = "idle"
        /\ \E t \in scope.threads : req[t] = [op |-> "set_auto_update", device_id |-> d]


\* the call for d has run to its end and the content of the device is known
\* from it: the catalog it fetched last or the device took from it last
DeviceKnown(d) == run[d].pc = "end" /\ obs[d].device.known

\* C34: a cache that is not dirty holds the catalog that was last fetched from
\* the device or last pushed to it with success; after auto_update_job has
\* saved the catalog with the new dates and the push has failed, the cache is
\* not left clean with a catalog the device has never taken.
C34_CleanCacheIsDeviceContent ==
    \A d \in scope.cached :
       (DeviceKnown(d) /\ d \in devices /\ products_cache[d].present /\ ~products_cache[d].dirty)
          => products_cache[d].catalog = obs[d].device.catalog


\* the cache of d holds edits that are not pushed, and a step of the run of
\* auto_update_job(d) puts another catalog in their place
EditsOverwritten(d) ==
    /\ run[d].caller = "job"
    /\ d \in devices /\ d \in devices'
    /\ products_cache[d].present /\ products_cache[d].dirty
    /\ products_cache'[d].catalog # products_cache[d].catalog

\* C35: a cache that patch_product_by_plu has left dirty is not overwritten by
\* a run of auto_update_job before it has been pushed: a run replaces a dirty
\* catalog only after the device has taken that catalog.
C35_DirtyCacheNotOverwritten ==
    [][\A d \in scope.cached :
          EditsOverwritten(d)
             => obs[d].device = [known |-> TRUE, catalog |-> products_cache[d].catalog]]_vars


\* thread t ends the visit of a schedule row in its rebuild
RowRebuilt(t) == pc[t] = "add_job" /\ pc'[t] # "add_job"

\* C36: a rebuild does not postpone the run time of the job of an enabled
\* schedule whose configuration has not changed: the job it adds for the row,
\* with the interval of the job it has removed, fires no later than the
\* removed job would have fired.
C36_RebuildKeepsFireTime ==
    [][\A t \in scope.threads :
          RowRebuilt(t) =>
             \A old \in hist.removed[Min(todo[t])], new \in get_job(jobs', Min(todo[t])) :
                old.minutes = new.minutes => new.next_run_time <= old.next_run_time]_vars


\* the calls of the device's catalog service under way for device d: the
\* scheduler's run or a direct call at a fetch or an upload, and the upload_cache
\* requests of the request threads at theirs
InProgress(d) ==
    (IF run[d].pc \in {"fetch", "send", "diagnose"} THEN 1 ELSE 0)
    + Cardinality({t \in scope.threads :
                      pc[t] \in {"send", "diagnose"} /\ req[t].device_id = d})

\* C39: at any time at most one catalog operation, a fetch or a push, is in
\* progress against a device, whether a run of auto_update_job started by the
\* scheduler or a request of upload_cache started it.
C39_OneOperationPerDevice ==
    \A d \in scope.cached : InProgress(d) <= 1

====
